---- MODULE Spec2Model ----
(***************************************************************************)
(* typedload: the recursive load/dump engine.                              *)
(*                                                                         *)
(* Python values, declared types and exceptions are tagged records; the    *)
(* Loader object is a record of options and caches that every handler      *)
(* receives and returns (handlers mutate the loader they are given).       *)
(***************************************************************************)
EXTENDS Integers, Sequences, FiniteSets, TLC

VARIABLES loader, dumper, request, last

vars == <<loader, dumper, request, last>>

(***************************************************************************)
(* Bounds of the model.                                                    *)
(***************************************************************************)
\* longest generated input sequence
MaxLen == 2
\* interpreter recursion limit, counted in handler invocations
MaxDepth == 12

(***************************************************************************)
(* Declared types: [k, n, args].  k is the shape the type predicates of    *)
(* typechecks.py observe, n the class (or alias) name, args the __args__.  *)
(***************************************************************************)
Ty(k, n, args) == [k |-> k, n |-> n, args |-> args]

NoType == Ty("nil", "", <<>>)
NONETYPE == Ty("builtin", "NoneType", <<>>)
T_int == Ty("builtin", "int", <<>>)
T_bool == Ty("builtin", "bool", <<>>)
T_float == Ty("builtin", "float", <<>>)
T_str == Ty("builtin", "str", <<>>)
T_Any == Ty("any", "Any", <<>>)
Ellipsis == Ty("ellipsis", "...", <<>>)
\* a plain class that no default handler accepts
T_Unk == Ty("class", "Unk", <<>>)
\* the class Q of test_custom_handler, loaded by a handler the program adds
T_Q == Ty("class", "Q", <<>>)

ListOf(t) == Ty("list", "List", <<t>>)
SetOf(t) == Ty("set", "Set", <<t>>)
FrozenSetOf(t) == Ty("frozenset", "FrozenSet", <<t>>)
DictOf(kt, vt) == Ty("dict", "Dict", <<kt, vt>>)
TupleOf(ts) == Ty("tuple", "Tuple", ts)
VarTupleOf(t) == Ty("tuple", "Tuple", <<t, Ellipsis>>)
UnionOf(ts) == Ty("union", "Union", ts)
OptionalOf(t) == Ty("union", "Optional", <<t, NONETYPE>>)
ForwardRef(n) == Ty("forwardref", n, <<>>)
LiteralT(n) == Ty("literal", n, <<>>)
\* a record class carries its declared fields with it (_fields and
\* __annotations__, __dataclass_fields__, __attrs_attrs__)
RECURSIVE ClassFields(_)
ClassT(k, n) == [k |-> k, n |-> n, args |-> <<>>, fields |-> ClassFields(n)]
NamedTupleT(n) == ClassT("namedtuple", n)
AttrsT(n) == ClassT("attrs", n)
DataclassT(n) == ClassT("dataclass", n)
TypedDictT(n) == ClassT("typeddict", n)
EnumT(n) == Ty("enum", n, <<>>)
NewTypeT(n, t) == Ty("newtype", n, <<t>>)

(***************************************************************************)
(* Python values: [k, pv] (objects and enum members also carry cls).       *)
(* A float holds its value in tenths; a dict is its items in insertion     *)
(* order; a str is a TLA+ string.                                          *)
(***************************************************************************)
None == [k |-> "none"]
IntV(n) == [k |-> "int", pv |-> n]
BoolV(b) == [k |-> "bool", pv |-> b]
FloatV(tenths) == [k |-> "float", pv |-> tenths]
StrV(s) == [k |-> "str", pv |-> s]
ListV(s) == [k |-> "list", pv |-> s]
TupleV(s) == [k |-> "tuple", pv |-> s]
SetV(s) == [k |-> "set", pv |-> s]
FrozenSetV(s) == [k |-> "frozenset", pv |-> s]
DictV(items) == [k |-> "dict", pv |-> items]
NamespaceV(items) == [k |-> "namespace", pv |-> items]
GeneratorV(s) == [k |-> "generator", pv |-> s]
ObjV(cls, attrs) == [cls |-> cls, k |-> "obj", pv |-> attrs]
EnumV(cls, val) == [cls |-> cls, k |-> "enum", pv |-> val]

\* type(value)
TypeOf(v) ==
    CASE v.k = "none" -> NONETYPE
      [] v.k \in {"int", "bool", "float", "str"} -> Ty("builtin", v.k, <<>>)
      [] v.k \in {"obj", "enum"} -> v.cls
      [] OTHER -> Ty("class", v.k, <<>>)

\* isinstance(value, t) for a builtin class t: bool is a subclass of int
IsInstance(v, t) ==
    \/ TypeOf(v) = t
    \/ v.k = "bool" /\ t = T_int

(***************************************************************************)
(* The record, enum and literal classes the loads below are made against   *)
(* (the classes of the test suite).  A field descriptor is                 *)
(* [name, type, hasdef, def, init, ext]: ext is the metadata name used for *)
(* name mangling ("" when the field has none).                             *)
(***************************************************************************)
Fld(name, type, hasdef, def, ext) == [name |-> name, type |-> type, hasdef |-> hasdef, def |-> def, init |-> TRUE, ext |-> ext, repr |-> TRUE]
\* attrib(type=type, default=def, repr=repr) of an attrs class
Attrib(name, type, hasdef, def, repr) == [Fld(name, type, hasdef, def, "") EXCEPT !.repr = repr]
Req(name, type) == Fld(name, type, FALSE, None, "")
Opt(name, type, def) == Fld(name, type, TRUE, def, "")

T_Point == NamedTupleT("Point")
T_Student == NamedTupleT("Student")
T_Node == NamedTupleT("Node")
T_A == NamedTupleT("A")
T_B == NamedTupleT("B")
T_Firewall == NamedTupleT("Firewall")
T_Pair == NamedTupleT("Pair")
T_Mangle == DataclassT("Mangle")
T_Swap == DataclassT("Swap")
T_Conf == DataclassT("Conf")
T_ExamResults == NamedTupleT("ExamResults")
T_Inventory == DataclassT("Inventory")
T_Box == NamedTupleT("Box")
T_Secret == AttrsT("Secret")
T_Movie == TypedDictT("Movie")
T_Result == EnumT("Result")
T_LitA == LiteralT("LitA")
T_LitB == LiteralT("LitB")
T_LitC == LiteralT("LitC")
\* X = Union[int, List['X']]
T_X == UnionOf(<<T_int, ListOf(ForwardRef("X"))>>)
T_C == NamedTupleT("C")

\* the values of a Literal[...] type
LiteralArgs(n) ==
    CASE n = "LitA" -> {StrV("a")}
      [] n = "LitB" -> {StrV("b"), StrV("c")}
      [] n = "LitC" -> {StrV("a"), StrV("c")}
      [] OTHER -> {}

\* the members of an Enum class, by value
EnumMembers(n) ==
    CASE n = "Result" -> {BoolV(TRUE), BoolV(FALSE)}
      [] OTHER -> {}

\* the declared fields of a record class, in declaration order
ClassFields(n) ==
    CASE n = "Point" -> <<Req("x", T_int), Req("y", T_int)>>
      [] n = "Student" -> <<Req("name", T_str), Req("id", T_int), Opt("email", OptionalOf(T_str), None)>>
      [] n = "Node" -> <<Req("value", T_int), Req("next", OptionalOf(ForwardRef("Node")))>>
      [] n = "A" -> <<Req("kind", T_LitA), Req("val", T_int)>>
      [] n = "B" -> <<Req("kind", T_LitB), Opt("val", T_int, IntV(0))>>
      [] n = "C" -> <<Req("kind", T_LitC), Opt("val", T_int, IntV(0))>>
      [] n = "Firewall" -> <<Req("open_ports", ListOf(T_int))>>
      [] n = "Pair" -> <<Req("a", TupleOf(<<T_int, T_int>>))>>
      [] n = "Mangle" -> <<Fld("p", T_int, FALSE, None, "e"), Req("q", T_int)>>
      [] n = "Swap" -> <<Fld("a", T_int, FALSE, None, "b"), Fld("b", T_int, TRUE, IntV(2), "a")>>
      [] n = "Conf" -> <<Req("point", T_Point), Opt("tags", ListOf(T_str), ListV(<<>>))>>
      [] n = "ExamResults" -> <<Req("results", ListOf(TupleOf(<<T_Student, T_Result>>)))>>
      [] n = "Inventory" -> <<Req("seen", SetOf(T_int)), Req("counts", DictOf(T_str, T_int)), Opt("owner", OptionalOf(T_str), None)>>
      [] n = "Box" -> <<Req("item", T_Unk)>>
      [] n = "Secret" -> <<Attrib("i", T_int, FALSE, None, TRUE), Attrib("j", T_int, FALSE, None, FALSE),
                           Attrib("k", T_int, TRUE, IntV(0), TRUE)>>
      [] n = "Movie" -> <<Req("title", T_str), Opt("year", T_int, None)>>
      [] OTHER -> <<>>

SeqToSet(s) == {s[i] : i \in DOMAIN s}
FieldNamesOf(fs) == {f.name : f \in SeqToSet(fs)}
FieldIn(fs, name) == CHOOSE f \in SeqToSet(fs) : f.name = name
FieldNames(n) == FieldNamesOf(ClassFields(n))
FieldOf(n, name) == FieldIn(ClassFields(n), name)

(***************************************************************************)
(* Exceptions.  cls is the Python class; info holds the names or numbers   *)
(* the message spells out; trace is the list of TraceItem, outermost       *)
(* first; exceptions the sub-exceptions of a union or enum load.           *)
(***************************************************************************)
NoAnnotation == [annotation_type |-> "none", value |-> None]
Annotation(annotation_type, value) == [annotation_type |-> annotation_type, value |-> value]
TraceItem(value, type_, annotation) == [value |-> value, type_ |-> type_, annotation |-> annotation]

Exc(cls, desc, info, value, type_, exceptions) == [cls |-> cls, desc |-> desc, info |-> info, value |-> value, type_ |-> type_, trace |-> <<>>, exceptions |-> exceptions]
NoExc == Exc("", "", {}, None, NoType, <<>>)
\* a built-in exception, carrying no typedload attributes
PyExc(cls, desc) == Exc(cls, desc, {}, None, NoType, <<>>)
TypedloadException(desc, value, type_) == Exc("TypedloadException", desc, {}, value, type_, <<>>)
TypedloadValueError(desc, info, value, type_) == Exc("TypedloadValueError", desc, info, value, type_, <<>>)
TypedloadTypeError(desc, value, type_) == Exc("TypedloadTypeError", desc, {}, value, type_, <<>>)
TypedloadAttributeError(desc, value, type_) == Exc("TypedloadAttributeError", desc, {}, value, type_, <<>>)

\* isinstance(e, TypedloadException)
IsTypedload(e) == e.cls \in {"TypedloadException", "TypedloadValueError", "TypedloadTypeError", "TypedloadAttributeError"}
\* isinstance(e, ValueError), isinstance(e, TypeError), isinstance(e, AttributeError)
IsValueError(e) == e.cls \in {"ValueError", "TypedloadValueError"}
IsTypeError(e) == e.cls \in {"TypeError", "TypedloadTypeError"}
IsAttributeError(e) == e.cls \in {"AttributeError", "TypedloadAttributeError"}

\* e.trace.insert(0, item)
TraceInsert(e, item) == [e EXCEPT !.trace = <<item>> \o @]

\* what a call gives: a value returned or an exception raised
Ok(v) == [ok |-> TRUE, val |-> v, exc |-> NoExc]
Raise(e) == [ok |-> FALSE, val |-> None, exc |-> e]
\* a call's outcome together with the loader (or dumper) it leaves behind
R(out, L) == [out |-> out, L |-> L]

(***************************************************************************)
(* The Python built-ins the handlers call.                                 *)
(***************************************************************************)
IntLiterals == 0 .. 20

\* str(x) of a float kept in tenths
FloatStr(tenths) == ToString(tenths \div 10) \o "." \o ToString(tenths % 10)

RECURSIVE PyRepr(_), PyReprSeq(_, _), PyReprItems(_, _)
\* repr(value)
PyRepr(v) ==
    CASE v.k = "none" -> "None"
      [] v.k = "int" -> ToString(v.pv)
      [] v.k = "bool" -> IF v.pv THEN "True" ELSE "False"
      [] v.k = "float" -> FloatStr(v.pv)
      [] v.k = "str" -> "'" \o v.pv \o "'"
      [] v.k = "list" -> "[" \o PyReprSeq(v.pv, 1) \o "]"
      [] v.k = "tuple" -> "(" \o PyReprSeq(v.pv, 1) \o (IF Len(v.pv) = 1 THEN "," ELSE "") \o ")"
      [] v.k = "dict" -> "{" \o PyReprItems(v.pv, 1) \o "}"
      [] v.k = "enum" -> "<" \o v.cls.n \o ": " \o PyRepr(v.pv) \o ">"
      [] OTHER -> "<" \o v.k \o ">"
PyReprItems(s, i) ==
    IF i > Len(s) THEN ""
    ELSE PyRepr(s[i][1]) \o ": " \o PyRepr(s[i][2]) \o (IF i < Len(s) THEN ", " ELSE "") \o PyReprItems(s, i + 1)
PyReprSeq(s, i) ==
    IF i > Len(s) THEN ""
    ELSE PyRepr(s[i]) \o (IF i < Len(s) THEN ", " ELSE "") \o PyReprSeq(s, i + 1)

\* str(value)
PyStr(v) == IF v.k = "str" THEN v.pv ELSE PyRepr(v)

\* bool(value)
Truthy(v) ==
    CASE v.k = "none" -> FALSE
      [] v.k = "int" -> v.pv # 0
      [] v.k = "bool" -> v.pv
      [] v.k = "float" -> v.pv # 0
      [] v.k = "str" -> v.pv # ""
      [] v.k \in {"list", "tuple", "dict"} -> v.pv # <<>>
      [] v.k \in {"set", "frozenset"} -> v.pv # {}
      [] OTHER -> TRUE

\* the number a numeric value stands for, in tenths
Tenths(v) ==
    CASE v.k = "int" -> 10 * v.pv
      [] v.k = "bool" -> IF v.pv THEN 10 ELSE 0
      [] OTHER -> v.pv

IsNumber(v) == v.k \in {"int", "bool", "float"}

\* whether the value is a tuple (a named tuple is one), and its items
IsTupleV(v) == v.k = "tuple" \/ (v.k = "obj" /\ v.cls.k = "namedtuple")
TupleItems(v) ==
    IF v.k = "tuple" THEN v.pv
    ELSE [i \in DOMAIN v.cls.fields |-> v.pv[v.cls.fields[i].name]]

RECURSIVE PyEq(_, _), PyEqSeq(_, _)
\* a == b: numbers compare by value whatever their class, containers item
\* by item, dataclass instances field by field, everything else by identity
PyEq(a, b) ==
    CASE IsNumber(a) /\ IsNumber(b) -> Tenths(a) = Tenths(b)
      [] IsTupleV(a) /\ IsTupleV(b) -> PyEqSeq(TupleItems(a), TupleItems(b))
      [] a.k = "list" /\ b.k = "list" -> PyEqSeq(a.pv, b.pv)
      [] a.k \in {"set", "frozenset"} /\ b.k \in {"set", "frozenset"} ->
            /\ \A x \in a.pv : \E y \in b.pv : PyEq(x, y)
            /\ \A y \in b.pv : \E x \in a.pv : PyEq(x, y)
      [] a.k = "dict" /\ b.k = "dict" ->
            /\ \A i \in DOMAIN a.pv : \E j \in DOMAIN b.pv : PyEq(a.pv[i][1], b.pv[j][1]) /\ PyEq(a.pv[i][2], b.pv[j][2])
            /\ \A j \in DOMAIN b.pv : \E i \in DOMAIN a.pv : PyEq(a.pv[i][1], b.pv[j][1])
      [] a.k = "obj" /\ b.k = "obj" /\ a.cls = b.cls /\ a.cls.k = "dataclass" ->
            \A f \in DOMAIN a.pv : PyEq(a.pv[f], b.pv[f])
      [] OTHER -> a = b
PyEqSeq(s, t) == Len(s) = Len(t) /\ \A i \in DOMAIN s : PyEq(s[i], t[i])

\* int(value)
PyInt(v) ==
    CASE v.k = "int" -> Ok(v)
      [] v.k = "bool" -> Ok(IntV(IF v.pv THEN 1 ELSE 0))
      [] v.k = "float" -> Ok(IntV(v.pv \div 10))
      [] v.k = "str" ->
            IF \E n \in IntLiterals : ToString(n) = v.pv
            THEN Ok(IntV(CHOOSE n \in IntLiterals : ToString(n) = v.pv))
            ELSE Raise(PyExc("ValueError", "invalid literal for int()"))
      [] OTHER -> Raise(PyExc("TypeError", "int() argument must be a string or a real number"))

\* float(value)
PyFloat(v) ==
    CASE v.k \in {"int", "bool", "float"} -> Ok(FloatV(Tenths(v)))
      [] v.k = "str" ->
            IF \E n \in IntLiterals : ToString(n) = v.pv
            THEN Ok(FloatV(10 * (CHOOSE n \in IntLiterals : ToString(n) = v.pv)))
            ELSE IF \E n \in IntLiterals : FloatStr(n) = v.pv
            THEN Ok(FloatV(CHOOSE n \in IntLiterals : FloatStr(n) = v.pv))
            ELSE Raise(PyExc("ValueError", "could not convert string to float"))
      [] OTHER -> Raise(PyExc("TypeError", "float() argument must be a string or a real number"))

RECURSIVE SetToSeq(_)
\* the members of a set, in the order its iterator gives them
SetToSeq(S) == IF S = {} THEN <<>> ELSE LET x == CHOOSE x \in S : TRUE IN <<x>> \o SetToSeq(S \ {x})

\* iter(value): the items a for loop sees, or the TypeError of a non-iterable
PyIter(v) ==
    CASE v.k \in {"list", "tuple", "generator"} -> [ok |-> TRUE, items |-> v.pv]
      [] v.k \in {"set", "frozenset"} -> [ok |-> TRUE, items |-> SetToSeq(v.pv)]
      [] v.k = "str" -> [ok |-> TRUE, items |-> [i \in 1 .. Len(v.pv) |-> StrV(SubSeq(v.pv, i, i))]]
      [] v.k = "dict" -> [ok |-> TRUE, items |-> [i \in DOMAIN v.pv |-> v.pv[i][1]]]
      [] OTHER -> [ok |-> FALSE, items |-> <<>>]

\* whether len(value) is defined
HasLen(v) == v.k \in {"list", "tuple", "str", "dict", "set", "frozenset"}
PyLen(v) == IF v.k \in {"set", "frozenset"} THEN Cardinality(v.pv) ELSE Len(v.pv)

RECURSIVE TypeStr(_), TypeStrSeq(_, _)
\* str(type_)
TypeStr(t) ==
    CASE t.k \in {"builtin", "class", "namedtuple", "dataclass", "typeddict", "enum", "attrs"} -> "<class '" \o t.n \o "'>"
      [] t.k = "forwardref" -> "ForwardRef('" \o t.n \o "')"
      [] t.k = "ellipsis" -> "Ellipsis"
      [] t.k = "newtype" -> t.n
      [] t.args = <<>> -> "typing." \o t.n
      [] OTHER -> "typing." \o t.n \o "[" \o TypeStrSeq(t.args, 1) \o "]"
TypeStrSeq(s, i) ==
    IF i > Len(s) THEN ""
    ELSE TypeStr(s[i]) \o (IF i < Len(s) THEN ", " ELSE "") \o TypeStrSeq(s, i + 1)

\* TypedloadException._path, line 102: one item of the trace
PathItem(item) ==
    IF item.annotation = NoAnnotation THEN "None"
    ELSE IF item.annotation.annotation_type = "union" THEN TypeStr(item.annotation.value)
    ELSE IF item.annotation.value.k = "int" THEN "[" \o ToString(item.annotation.value.pv) \o "]"
    ELSE IF item.annotation.value.k = "bool" THEN (IF item.annotation.value.pv THEN "[1]" ELSE "[0]")
    ELSE PyStr(item.annotation.value)

RECURSIVE Join(_, _, _)
\* sep.join(path[i:])
Join(sep, path, i) ==
    IF i > Len(path) THEN ""
    ELSE path[i] \o (IF i < Len(path) THEN sep ELSE "") \o Join(sep, path, i + 1)

\* TypedloadException._path: where in the data the exception happened
_path(trace) ==
    LET path == [i \in DOMAIN trace |-> PathItem(trace[i])]
    IN IF Len(path) = 1 /\ path[1] = "None" THEN "."
       ELSE IF Len(path) > 1 /\ path[1] = "None" THEN Join(".", [path EXCEPT ![1] = ""], 1)
       ELSE Join(".", path, 1)

RECURSIVE Hashable(_)
\* whether hash(value) is defined
Hashable(v) ==
    CASE v.k \in {"none", "int", "bool", "float", "str", "frozenset", "enum"} -> TRUE
      [] v.k = "tuple" -> \A i \in DOMAIN v.pv : Hashable(v.pv[i])
      [] v.k = "obj" -> v.cls.k = "namedtuple" /\ \A a \in DOMAIN v.pv : Hashable(v.pv[a])
      [] OTHER -> FALSE

(***************************************************************************)
(* Dictionaries as item lists.                                             *)
(***************************************************************************)
DictKeys(items) == {items[i][1] : i \in DOMAIN items}
DictGet(items, key) == (CHOOSE i \in DOMAIN items : items[i][1] = key)
DictValue(items, key) == items[DictGet(items, key)][2]
\* d[key] = value: an existing key keeps its place
DictSet(items, key, value) ==
    IF key \in DictKeys(items)
    THEN [items EXCEPT ![DictGet(items, key)] = <<key, value>>]
    ELSE Append(items, <<key, value>>)

(***************************************************************************)
(* Type predicates (typechecks.py).                                        *)
(***************************************************************************)
is_nonetype(type_) == type_ = NONETYPE
is_union(type_) == type_.k = "union"
is_enum(type_) == type_.k = "enum"
is_tuple(type_) == type_.k = "tuple"
is_list(type_) == type_.k = "list"
is_dict(type_) == type_.k = "dict"
is_set(type_) == type_.k = "set"
is_frozenset(type_) == type_.k = "frozenset"
is_namedtuple(type_) == type_.k = "namedtuple"
is_dataclass(type_) == type_.k = "dataclass"
is_forwardref(type_) == type_.k = "forwardref"
is_literal(type_) == type_.k = "literal"
is_typeddict(type_) == type_.k = "typeddict"
is_any(type_) == type_ = T_Any
is_attrs(type_) == type_.k = "attrs"
is_newtype(type_) == type_.k = "newtype"
uniontypes(type_) == type_.args
literalvalues(type_) == LiteralArgs(type_.n)

\* the fields of a record class annotated with a Literal, and their values
discriminatorliterals(type_) ==
    IF type_.k \notin {"namedtuple", "dataclass", "typeddict"} THEN <<>>
    ELSE LET lits == {f \in SeqToSet(type_.fields) : is_literal(f.type)}
         IN [name \in {f.name : f \in lits} |-> literalvalues(FieldIn(type_.fields, name).type)]

(***************************************************************************)
(* The Loader object.                                                      *)
(***************************************************************************)
Handler(cond, f) == [cond |-> cond, f |-> f]

\* Loader.__init__: the default handler list
DefaultHandlers ==
    << Handler("is_nonetype", "_noneload"),
       Handler("is_union", "_unionload"),
       Handler("in_basictypes", "_basicload"),
       Handler("is_enum", "_enumload"),
       Handler("is_tuple", "_tupleload"),
       Handler("is_list", "_iterload_list"),
       Handler("is_dict", "_dictload"),
       Handler("is_set", "_iterload_set"),
       Handler("is_frozenset", "_iterload_frozenset"),
       Handler("is_namedtuple", "_namedtupleload"),
       Handler("is_dataclass", "_dataclassload"),
       Handler("is_forwardref", "_forwardrefload"),
       Handler("is_literal", "_literalload"),
       Handler("is_typeddict", "_typeddictload"),
       Handler("is_datetime", "_datetimeload"),
       Handler("is_pattern", "_patternload"),
       Handler("is_timedelta", "_timedeltaload"),
       Handler("in_strconstructed", "_strconstructload"),
       Handler("is_attrs", "_attrload"),
       Handler("is_any", "_anyload"),
       Handler("is_newtype", "_newtypeload") >>

EmptyDict == [x \in {} |-> x]

\* Loader.__init__ with its defaults; kwargs overrides them
DefaultLoader ==
    [ basictypes |-> {T_int, T_bool, T_float, T_str, NONETYPE},
      basiccast |-> TRUE,
      failonextra |-> FALSE,
      raiseconditionerrors |-> TRUE,
      frefs |-> [none |-> FALSE, d |-> EmptyDict],
      dictequivalence |-> TRUE,
      uniondebugconflict |-> FALSE,
      handlers |-> DefaultHandlers,
      indexcache |-> EmptyDict,
      objfieldscache |-> EmptyDict,
      discriminatorcache |-> EmptyDict,
      log |-> <<>> ]

\* the handlers a program adds to Loader.handlers:
\*   lambda t: t == Q                (test_custom_handler), giving Q()
\*   lambda t: t == int, giving 42
\*   lambda t: 33 + t is None        (test_broken_handler): TypeError on every type
\*   lambda t: int(t.__name__) == 0  : ValueError on every named type
\*   lambda t: t.__args__ is None    : AttributeError on a type without parameters
CustomHandlers ==
    {Handler("eq_Q", "_q"), Handler("eq_int", "_fortytwo"), Handler("raises_TypeError", "_none"),
     Handler("raises_ValueError", "_none"), Handler("no_args", "_none")}

\* what evaluating a handler's condition on a type gives: "T", "F", or the
\* class of the exception it raises
Cond(L, cond, type_) ==
    CASE cond = "raises_TypeError" -> "TypeError"
      [] cond = "raises_ValueError" -> "ValueError"
      [] cond = "no_args" -> IF type_.args = <<>> /\ type_.k # "literal" THEN "AttributeError" ELSE "F"
      [] OTHER ->
    LET b == CASE cond = "is_nonetype" -> is_nonetype(type_)
               [] cond = "eq_Q" -> type_ = T_Q
               [] cond = "eq_int" -> type_ = T_int
               [] cond = "is_union" -> is_union(type_)
               [] cond = "in_basictypes" -> type_ \in L.basictypes
               [] cond = "is_enum" -> is_enum(type_)
               [] cond = "is_tuple" -> is_tuple(type_)
               [] cond = "is_list" -> is_list(type_)
               [] cond = "is_dict" -> is_dict(type_)
               [] cond = "is_set" -> is_set(type_)
               [] cond = "is_frozenset" -> is_frozenset(type_)
               [] cond = "is_namedtuple" -> is_namedtuple(type_)
               [] cond = "is_dataclass" -> is_dataclass(type_)
               [] cond = "is_forwardref" -> is_forwardref(type_)
               [] cond = "is_literal" -> is_literal(type_)
               [] cond = "is_typeddict" -> is_typeddict(type_)
               [] cond = "is_any" -> is_any(type_)
               [] cond = "is_attrs" -> is_attrs(type_)
               [] cond = "is_newtype" -> is_newtype(type_)
               [] OTHER -> FALSE
    IN IF b THEN "T" ELSE "F"

RECURSIVE index_from(_, _, _)
\* the loop of Loader.index, from position i on
index_from(L, type_, i) ==
    IF i > Len(L.handlers) THEN [i |-> 0, exc |-> PyExc("ValueError", "No matching condition found")]
    ELSE LET Decide(c) ==
                 IF c = "T" THEN [i |-> i, exc |-> NoExc]
                 ELSE IF c = "F" THEN index_from(L, type_, i + 1)
                 ELSE IF L.raiseconditionerrors THEN [i |-> 0, exc |-> PyExc(c, "condition")]
                 ELSE index_from(L, type_, i + 1)
         IN Decide(Cond(L, L.handlers[i].cond, type_))

\* Loader.index: the position of the first handler whose condition accepts
\* type_ (i = 0 with the exception raised when there is none)
index(L, type_) == index_from(L, type_, 1)

\* hasattr(type_, '__name__') and type_.__name__
HasName(type_) == type_.k \notin {"forwardref", "ellipsis", "nil"}
TypeName(type_) == IF type_.k = "literal" THEN "Literal" ELSE type_.n

\* the cache filled with the transform of the last handler of the list
CacheFill_last(L, type_, f) == [L EXCEPT !.indexcache = (type_ :> L.handlers[Len(L.handlers)].f) @@ @]

\* self._indexcache[type_] = f
CacheFill(L, type_, f) == [L EXCEPT !.indexcache = (type_ :> f) @@ @]

\* lines 290-294 without the test of line 293: the name is bound to type_
\* whether it was bound or not
RegisterFref_rebind(L, type_) ==
    IF ~L.frefs.none /\ HasName(type_)
    THEN [L EXCEPT !.frefs.d = (TypeName(type_) :> type_) @@ @]
    ELSE L

\* Loader.load, lines 290-294: add type_ to the known types
RegisterFref(L, type_) ==
    IF ~L.frefs.none /\ HasName(type_) /\ TypeName(type_) \notin DOMAIN L.frefs.d
    THEN [L EXCEPT !.frefs.d = (TypeName(type_) :> type_) @@ @]
    ELSE L

(***************************************************************************)
(* The handlers.  Each takes the loader, the value, the declared type and  *)
(* the recursion depth left, and gives R(outcome, loader afterwards).  The *)
(* result of a call that the code binds to a local name is passed on as    *)
(* the parameter of a local operator, which stands for the statements that *)
(* follow the call.                                                        *)
(***************************************************************************)
RECURSIVE load(_, _, _, _, _), Call(_, _, _, _, _)
RECURSIVE _iterload(_, _, _, _, _), IterLoop(_, _, _, _, _, _, _, _)
RECURSIVE _tupleload(_, _, _, _), TupleLoop(_, _, _, _, _, _)
RECURSIVE _dictload(_, _, _, _), DictFast(_, _, _, _, _, _, _, _, _), DictSlow(_, _, _, _, _, _, _)
RECURSIVE _objloader(_, _, _, _, _, _, _), ObjLoop(_, _, _, _, _, _, _)
RECURSIVE _namedtupleload(_, _, _, _), _typeddictload(_, _, _, _), _dataclassload(_, _, _, _)
RECURSIVE _unionload(_, _, _, _), UnionMembers(_, _, _, _), UnionLoop(_, _, _, _, _, _, _, _)
RECURSIVE _enumload(_, _, _, _), EnumLoop(_, _, _, _, _, _, _)
RECURSIVE _forwardrefload(_, _, _, _), _newtypeload(_, _, _, _)

\* l._indexcache.get(t), else l._indexcache[t] = l.handlers[l.index(t)][1];
\* f = "" with the exception of index when no handler is found
Resolve(L, t) ==
    IF t \in DOMAIN L.indexcache THEN [f |-> L.indexcache[t], L |-> L, exc |-> NoExc]
    ELSE LET Found(ix) ==
                 IF ix.i = 0 THEN [f |-> "", L |-> L, exc |-> ix.exc]
                 ELSE [f |-> L.handlers[ix.i].f, L |-> CacheFill(L, t, L.handlers[ix.i].f), exc |-> NoExc]
         IN Found(index(L, t))

\* l._indexcache.get(t) or l.handlers[l.index(t)][1]: the cache is not filled
ResolveNoFill(L, t) ==
    IF t \in DOMAIN L.indexcache THEN [f |-> L.indexcache[t], L |-> L, exc |-> NoExc]
    ELSE LET Found(ix) ==
                 IF ix.i = 0 THEN [f |-> "", L |-> L, exc |-> ix.exc]
                 ELSE [f |-> L.handlers[ix.i].f, L |-> L, exc |-> NoExc]
         IN Found(index(L, t))

\* Loader.load
load(L, value, type_, annotation, d) ==
    LET hit == type_ \in DOMAIN L.indexcache
        \* lines 296-301: return func(self, value, type_), with its exceptions
        Return(r) ==
            IF r.out.ok THEN r
            ELSE IF IsTypedload(r.out.exc)
            THEN R(Raise(TraceInsert(r.out.exc, TraceItem(value, type_, annotation))), r.L)
            ELSE R(Raise(PyExc("AssertionError", "")), r.L)
        \* lines 273-294: the handler is looked up when the cache misses
        Found(ix) ==
            IF ~hit /\ ix.i = 0
            THEN IF IsValueError(ix.exc)
                 THEN R(Raise(TypedloadTypeError("Cannot deal with value of type", value, type_)), L)
                 ELSE R(Raise(ix.exc), L)
            ELSE LET func == IF hit THEN L.indexcache[type_] ELSE L.handlers[ix.i].f
                     L1 == IF hit THEN L ELSE RegisterFref(CacheFill(L, type_, func), type_)
                 IN Return(Call(func, L1, value, type_, d))
    IN Found(index(L, type_))

_anyload(L, value, type_, d) == R(Ok(value), L)

_noneload(L, value, type_, d) ==
    IF value = None THEN R(Ok(None), L)
    ELSE R(Raise(TypedloadValueError("Not None", {}, value, type_)), L)

\* _literalload without the test of line 333: any value passes for the literal
_literalload_any(L, value, type_, d) == R(Ok(value), L)

_literalload(L, value, type_, d) ==
    IF \E a \in LiteralArgs(type_.n) : PyEq(value, a) THEN R(Ok(value), L)
    ELSE R(Raise(TypedloadValueError("Not one of the allowed values", {}, value, type_)), L)

\* type_(value) for the classes a handler may construct from one argument
Construct(type_, value) ==
    CASE type_ = T_int -> PyInt(value)
      [] type_ = T_float -> PyFloat(value)
      [] type_ = T_str -> Ok(StrV(PyStr(value)))
      [] type_ = T_bool -> Ok(BoolV(Truthy(value)))
      [] type_.k = "enum" ->
            IF \E m \in EnumMembers(type_.n) : PyEq(m, value)
            THEN Ok(EnumV(type_, CHOOSE m \in EnumMembers(type_.n) : PyEq(m, value)))
            ELSE Raise(PyExc("ValueError", "is not a valid member"))
      \* a NamedTuple or dataclass: the argument is the first field, the other
      \* fields take their defaults
      [] type_.k \in {"namedtuple", "dataclass"} /\ type_.fields # <<>> ->
            IF \E i \in 2 .. Len(type_.fields) :
                   type_.fields[i].init /\ ~type_.fields[i].hasdef
            THEN Raise(PyExc("TypeError", "__new__() missing required positional arguments"))
            ELSE Ok(ObjV(type_, [name \in FieldNamesOf(type_.fields) |->
                         IF name = type_.fields[1].name THEN value ELSE FieldIn(type_.fields, name).def]))
      [] OTHER -> Raise(PyExc("TypeError", "cannot be constructed from one argument"))

\* _basicload with isinstance(value, type_) for the test of line 348: a bool
\* passes for an int
_basicload_isinstance(L, value, type_, d) ==
    IF IsInstance(value, type_) THEN R(Ok(value), L)
    ELSE IF ~L.basiccast THEN R(Raise(TypedloadValueError("Got value of another type", {}, value, type_)), L)
    ELSE LET Cast(c) ==
                 IF c.ok THEN R(c, L)
                 ELSE IF IsValueError(c.exc) THEN R(Raise(TypedloadValueError(c.exc.desc, {}, value, type_)), L)
                 ELSE IF IsTypeError(c.exc) THEN R(Raise(TypedloadTypeError(c.exc.desc, value, type_)), L)
                 ELSE R(Raise(TypedloadException(c.exc.desc, value, type_)), L)
         IN Cast(Construct(type_, value))

_basicload(L, value, type_, d) ==
    IF TypeOf(value) # type_
    THEN IF L.basiccast
         THEN LET Cast(c) ==
                      IF c.ok THEN R(c, L)
                      ELSE IF IsValueError(c.exc) THEN R(Raise(TypedloadValueError(c.exc.desc, {}, value, type_)), L)
                      ELSE IF IsTypeError(c.exc) THEN R(Raise(TypedloadTypeError(c.exc.desc, value, type_)), L)
                      ELSE R(Raise(TypedloadException(c.exc.desc, value, type_)), L)
              IN Cast(Construct(type_, value))
         ELSE R(Raise(TypedloadValueError("Got value of another type", {}, value, type_)), L)
    ELSE R(Ok(value), L)

\* function(items): list, tuple, set or frozenset of the loaded items
RECURSIVE PySet(_)
PySet(s) ==
    IF s = <<>> THEN {}
    ELSE LET Add(init) == IF \E e \in init : PyEq(e, s[Len(s)]) THEN init ELSE init \cup {s[Len(s)]}
         IN Add(PySet(SubSeq(s, 1, Len(s) - 1)))
Collect(function, acc) ==
    CASE function = "list" -> ListV(acc)
      [] function = "tuple" -> TupleV(acc)
      [] function = "set" -> SetV(PySet(acc))
      [] function = "frozenset" -> FrozenSetV(PySet(acc))

\* _iterload, lines 927-933: the generator consumed by function().  cfg.mode
\* says which items are passed through without calling f; a set refuses an
\* unhashable item as soon as it is produced.  at is the position (from 1) of
\* the item at which the exception was raised.
IterLoop(L, f, cfg, t, items, i, acc, d) ==
    IF i > Len(items) THEN [out |-> Ok(ListV(acc)), L |-> L, at |-> 0]
    ELSE LET it == items[i]
             pass == \/ cfg.mode = "basic" /\ IsInstance(it, t)
                     \/ cfg.mode = "union" /\ TypeOf(it) \in cfg.types
             Yield(r) ==
                 IF ~r.out.ok THEN [out |-> r.out, L |-> r.L, at |-> i]
                 ELSE IF cfg.function \in {"set", "frozenset"} /\ ~Hashable(r.out.val)
                 THEN [out |-> Raise(PyExc("TypeError", "unhashable type")), L |-> r.L, at |-> i]
                 ELSE IterLoop(r.L, f, cfg, t, items, i + 1, Append(acc, r.out.val), d)
         IN Yield(IF pass THEN R(Ok(it), L) ELSE Call(f, L, it, t, d))

_iterload(L, value, type_, function, d) ==
    IF value.k = "dict"
    THEN R(Raise(TypedloadTypeError("Unable to load dictionary as an iterable", value, type_)), L)
    ELSE LET t == type_.args[1]
             mode == IF t \in L.basictypes THEN "basic"
                     ELSE IF is_union(t) /\ SeqToSet(uniontypes(t)) \subseteq L.basictypes THEN "union"
                     ELSE "call"
             cfg == [mode |-> mode, types |-> SeqToSet(t.args), function |-> function]
             \* lines 926-942: return function(...), with its exceptions
             Return(lp) ==
                 IF lp.out.ok
                 THEN R(Ok(Collect(function, lp.out.val.pv)), lp.L)
                 ELSE IF IsTypedload(lp.out.exc)
                 THEN R(Raise(TraceInsert(lp.out.exc, TraceItem(value, type_, Annotation("index", IntV(lp.at - 1))))), lp.L)
                 ELSE IF IsTypeError(lp.out.exc)
                 THEN R(Raise(TypedloadTypeError(lp.out.exc.desc, value, type_)), lp.L)
                 ELSE R(Raise(TypedloadTypeError("Exception is not a subclass of TypedloadException", None, NoType)), lp.L)
             \* h is the handler of the items, it the iteration over value
             Iterate(h, it) ==
                 IF h.f = ""
                 THEN IF IsValueError(h.exc)
                      THEN R(Raise(TypedloadTypeError("Cannot deal with value of type", value, t)), L)
                      ELSE R(Raise(h.exc), L)
                 ELSE IF ~it.ok
                 THEN R(Raise(TypedloadTypeError("object is not iterable", value, type_)), h.L)
                 ELSE Return(IterLoop(h.L, h.f, cfg, t, it.items, 1, <<>>, d))
         IN Iterate(Resolve(L, t), PyIter(value))

\* _tupleload, lines 443-449: zip() takes the next item, then the handler of
\* the next position, and stops when the positions are exhausted
TupleLoop(L, value, args, i, acc, d) ==
    IF i > Len(args) THEN [out |-> Ok(TupleV(acc)), L |-> L, at |-> 0]
    ELSE LET t == args[i]
             Yield(r) ==
                 IF ~r.out.ok THEN [out |-> r.out, L |-> r.L, at |-> i]
                 ELSE TupleLoop(r.L, value, args, i + 1, Append(acc, r.out.val), d)
             Zip(v, h) ==
                 IF h.f = "" THEN [out |-> Raise(h.exc), L |-> L, at |-> i]
                 ELSE Yield(IF t \in L.basictypes /\ TypeOf(v) = t THEN R(Ok(v), L) ELSE Call(h.f, L, v, t, d))
         IN Zip(PyIter(value).items[i], ResolveNoFill(L, t))

\* _tupleload with the test of line 435 taken without failonextra: a value
\* longer than the type is always refused
TooLong_always(L, value, args) == PyLen(value) > Len(args)

\* _tupleload, line 435: l.failonextra and len(value) > len(args)
TooLong(L, value, args) == L.failonextra /\ PyLen(value) > Len(args)

_tupleload(L, value, type_, d) ==
    LET args == type_.args
    IN IF Len(args) = 2 /\ args[2] = Ellipsis THEN _iterload(L, value, type_, "tuple", d)
       ELSE IF value.k = "dict"
       THEN R(Raise(TypedloadTypeError("Unable to load dictionary as a tuple", value, type_)), L)
       ELSE IF ~HasLen(value)
       THEN R(Raise(PyExc("TypeError", "object has no len()")), L)
       ELSE IF TooLong(L, value, args)
       THEN R(Raise(TypedloadValueError("Value is too long for type", {}, value, type_)), L)
       ELSE IF PyLen(value) < Len(args)
       THEN R(Raise(TypedloadValueError("Value is too short for type", {}, value, type_)), L)
       ELSE LET Return(lp) ==
                    IF lp.out.ok THEN R(lp.out, lp.L)
                    ELSE IF IsTypedload(lp.out.exc)
                    THEN R(Raise(TraceInsert(lp.out.exc, TraceItem(value, type_, Annotation("index", IntV(lp.at - 1))))), lp.L)
                    ELSE IF IsTypeError(lp.out.exc)
                    THEN R(Raise(TypedloadTypeError(lp.out.exc.desc, value, type_)), lp.L)
                    ELSE R(Raise(TypedloadTypeError("Exception is not a subclass of TypedloadException", None, NoType)), lp.L)
            IN Return(TupleLoop(L, value, args, 1, <<>>, d))

\* _dictequivalence: an argparse.Namespace becomes the dict of its attributes
_dictequivalence(L, value) ==
    IF L.dictequivalence /\ value.k = "namespace" THEN DictV(value.pv) ELSE value

\* _dictload, lines 405-410: the fast comprehension.  kf and vf are the
\* handlers bound to key_f and value_f ("" when the name is unbound)
DictFast(L, kf, vf, kt, vt, items, i, acc, d) ==
    IF i > Len(items) THEN R(Ok(DictV(acc)), L)
    ELSE LET k == items[i][1]
             v == items[i][2]
             Item(rk, rv) ==
                 IF ~rv.out.ok THEN rv
                 ELSE IF ~Hashable(rk.out.val) THEN R(Raise(PyExc("TypeError", "unhashable type")), rv.L)
                 ELSE DictFast(rv.L, kf, vf, kt, vt, items, i + 1, DictSet(acc, rk.out.val, rv.out.val), d)
             Key(rk) ==
                 IF ~rk.out.ok THEN rk
                 ELSE Item(rk, IF vt \in L.basictypes /\ IsInstance(v, vt) THEN R(Ok(v), rk.L)
                               ELSE IF vf = "" THEN R(Raise(PyExc("UnboundLocalError", "value_f")), rk.L)
                               ELSE Call(vf, rk.L, v, vt, d))
         IN Key(IF kt \in L.basictypes /\ IsInstance(k, kt) THEN R(Ok(k), L) ELSE Call(kf, L, k, kt, d))

\* _dictload, lines 416-418: the comprehension that goes through load()
DictSlow(L, kt, vt, items, i, acc, d) ==
    IF i > Len(items) THEN R(Ok(DictV(acc)), L)
    ELSE LET k == items[i][1]
             v == items[i][2]
             Item(rk, rv) ==
                 IF ~rv.out.ok THEN rv
                 ELSE IF ~Hashable(rk.out.val) THEN R(Raise(PyExc("TypeError", "unhashable type")), rv.L)
                 ELSE DictSlow(rv.L, kt, vt, items, i + 1, DictSet(acc, rk.out.val, rv.out.val), d)
             Key(rk) ==
                 IF ~rk.out.ok THEN rk
                 ELSE Item(rk, load(rk.L, v, vt, Annotation("value", v), d))
         IN Key(load(L, k, kt, Annotation("key", k), d))

_dictload(L, value, type_, d) ==
    LET key_type == type_.args[1]
        value_type == type_.args[2]
        \* lines 415-420: the comprehension through load(), with its exceptions
        Return(slow, value1) ==
            IF slow.out.ok THEN slow
            ELSE IF IsAttributeError(slow.out.exc)
            THEN R(Raise(TypedloadAttributeError(slow.out.exc.desc, value1, type_)), slow.L)
            ELSE slow
        \* lines 404-413: an exception of the fast comprehension is dropped
        Retry(fast, value1) ==
            IF fast.out.ok THEN fast
            ELSE Return(IF value1.k = "dict"
                        THEN DictSlow(fast.L, key_type, value_type, value1.pv, 1, <<>>, d)
                        ELSE R(Raise(PyExc("AttributeError", "object has no attribute 'items'")), fast.L),
                        value1)
        \* lines 388-402: the handler of the values, then the comprehensions
        Values(kh, vh, value1) ==
            IF vh.f = ""
            THEN IF IsValueError(vh.exc)
                 THEN R(Raise(TypedloadValueError("Cannot deal with value of type (value of)", {}, value, value_type)), kh.L)
                 ELSE R(Raise(vh.exc), kh.L)
            ELSE LET vhit == value_type \in DOMAIN kh.L.indexcache
                     \* line 394 binds the value's handler to key_f and leaves value_f unbound
                     key_f == IF vhit THEN kh.f ELSE vh.f
                     value_f == IF vhit THEN vh.f ELSE ""
                 IN Retry(IF value1.k = "dict"
                          THEN DictFast(vh.L, key_f, value_f, key_type, value_type, value1.pv, 1, <<>>, d)
                          ELSE R(Raise(PyExc("AttributeError", "object has no attribute 'items'")), vh.L),
                          value1)
        \* lines 375-386: the handler of the keys
        Keys(kh) ==
            IF kh.f = ""
            THEN IF IsValueError(kh.exc)
                 THEN R(Raise(TypedloadValueError("Cannot deal with value of type (key of)", {}, value, key_type)), L)
                 ELSE R(Raise(kh.exc), L)
            ELSE Values(kh, Resolve(kh.L, value_type), _dictequivalence(L, value))
    IN Keys(Resolve(L, key_type))

RECURSIVE MangleLoop(_, _, _, _, _, _)
\* _mangle_names, lines 476-484; raised carries the key of an 'Extra field'
MangleLoop(namesmap, skip, items, failonextra, i, r) ==
    IF i > Len(items) THEN [raised |-> FALSE, key |-> None, r |-> r]
    ELSE LET k == items[i][1]
             isname == k.k = "str"
         IN IF isname /\ k.pv \in skip /\ k.pv \notin DOMAIN namesmap
            THEN IF failonextra THEN [raised |-> TRUE, key |-> k, r |-> r]
                 ELSE MangleLoop(namesmap, skip, items, failonextra, i + 1, r)
            ELSE LET k2 == IF isname /\ k.pv \in DOMAIN namesmap THEN StrV(namesmap[k.pv]) ELSE k
                 IN MangleLoop(namesmap, skip, items, failonextra, i + 1, DictSet(r, k2, items[i][2]))

\* what _mangle_names gives: the outcome of the call and, in left, the
\* mapping it was passed as the call leaves it
Left(out, value) == [ok |-> out.ok, val |-> out.val, exc |-> out.exc, left |-> value]

\* _mangle_names without lines 471-484: the keys are left as they are
_mangle_names_none(namesmap, value, failonextra) == Left(Ok(value), value)

\* _mangle_names with r = value for line 475: the keys are renamed and
\* dropped in the mapping passed
_mangle_names_inplace(namesmap, value, failonextra) ==
    IF DOMAIN namesmap = {} THEN Left(Ok(value), value)
    ELSE IF value.k # "dict" THEN Left(Raise(PyExc("AttributeError", "object has no attribute 'items'")), value)
    ELSE LET Return(m) ==
                 IF m.raised THEN Left(Raise(Exc("ValueError", "Extra field", {m.key.pv}, None, NoType, <<>>)), DictV(m.r))
                 ELSE Left(Ok(DictV(m.r)), DictV(m.r))
         IN Return(MangleLoop(namesmap, {namesmap[n] : n \in DOMAIN namesmap}, value.pv, failonextra, 1, <<>>))

\* _mangle_names with an empty skip set (line 474): the python names of the
\* mangled fields are taken like any other key
_mangle_names_keep(namesmap, value, failonextra) ==
    IF DOMAIN namesmap = {} THEN Left(Ok(value), value)
    ELSE IF value.k # "dict" THEN Left(Raise(PyExc("AttributeError", "object has no attribute 'items'")), value)
    ELSE Left(Ok(DictV(MangleLoop(namesmap, {}, value.pv, failonextra, 1, <<>>).r)), value)

\* _mangle_names: namesmap is [dataname] = pyname.  The loop stores into r,
\* a dict of its own (line 475), and only iterates value.
_mangle_names(namesmap, value, failonextra) ==
    IF DOMAIN namesmap = {} THEN Left(Ok(value), value)
    ELSE IF value.k # "dict" THEN Left(Raise(PyExc("AttributeError", "object has no attribute 'items'")), value)
    ELSE LET Return(m) ==
                 IF m.raised THEN Left(Raise(Exc("ValueError", "Extra field", {m.key.pv}, None, NoType, <<>>)), value)
                 ELSE Left(Ok(DictV(m.r)), value)
         IN Return(MangleLoop(namesmap, {namesmap[n] : n \in DOMAIN namesmap}, value.pv, failonextra, 1, <<>>))

RECURSIVE ParamsOf(_, _)
\* the keyword arguments as a function of the field name
ParamsOf(params, i) ==
    IF i > Len(params) THEN EmptyDict
    ELSE (params[i][1].pv :> params[i][2]) @@ ParamsOf(params, i + 1)

\* type_(**params): the constructor of a record class
New(type_, params) ==
    LET Init(given, fs) ==
            IF \E f \in fs : \/ f.name \in DOMAIN given /\ ~f.init
                             \/ f.name \notin DOMAIN given /\ f.init /\ ~f.hasdef
            THEN Raise(PyExc("TypeError", "__init__() got an unexpected or missing argument"))
            ELSE Ok(ObjV(type_, [name \in FieldNamesOf(type_.fields) |->
                     IF name \in DOMAIN given THEN given[name] ELSE FieldIn(type_.fields, name).def]))
    IN IF type_.k = "typeddict" THEN Ok(DictV(params))
       ELSE Init(ParamsOf(params, 1), SeqToSet(type_.fields))

\* _objloader, lines 577-601: the loop over value.items()
ObjLoop(L, fields, type_hints, value, type_, st, d) ==
    IF st.i > Len(value.pv) THEN R(Ok(DictV(st.params)), L)
    ELSE LET k == value.pv[st.i][1]
             v == value.pv[st.i][2]
             next == [st EXCEPT !.i = @ + 1]
         IN IF ~(k.k = "str" /\ k.pv \in fields) THEN ObjLoop(L, fields, type_hints, value, type_, next, d)
            ELSE LET field_type == type_hints[k.pv]
                     \* lines 596-601: params[k] = loader_f(l, v, field_type)
                     Param(r) ==
                         IF ~r.out.ok
                         THEN IF IsTypedload(r.out.exc)
                              THEN R(Raise(TraceInsert(r.out.exc, TraceItem(value, type_, Annotation("field", k)))), r.L)
                              ELSE r
                         ELSE ObjLoop(r.L, fields, type_hints, value, type_, [next EXCEPT !.params = DictSet(@, k, r.out.val)], d)
                     \* lines 583-595: the handler of the field's type
                     Field(h) ==
                         IF h.f = ""
                         THEN IF IsValueError(h.exc)
                              THEN R(Raise(TypedloadTypeError("Cannot deal with value of type", value, field_type)), L)
                              ELSE R(Raise(h.exc), L)
                         ELSE Param(Call(h.f, h.L, v, field_type, d))
                 IN Field(Resolve(L, field_type))

\* _objloader: load dict-like data into a record class
_objloader(L, fields, necessary_fields, type_hints, value0, type_, d) ==
    LET \* lines 602-607: return type_(**params), with its exceptions
        Return(made, L2) ==
            IF made.ok THEN R(made, L2)
            ELSE IF IsTypeError(made.exc) THEN R(Raise(TypedloadTypeError(made.exc.desc, None, NoType)), L2)
            ELSE R(Raise(TypedloadValueError(made.exc.desc, {}, None, NoType)), L2)
        Params(lp) ==
            IF ~lp.out.ok THEN lp
            ELSE Return(New(type_, lp.out.val.pv),
                        [lp.L EXCEPT !.log = Append(@, [f |-> "__new__", t |-> type_,
                                                        keys |-> {p[1].pv : p \in SeqToSet(lp.out.val.pv)}])])
        \* lines 558-574: the checks of the keys against the fields
        Check(value, vfields, extra_fields) ==
            IF necessary_fields \ vfields # {}
            THEN R(Raise(TypedloadValueError("Value does not contain fields which are necessary for type", necessary_fields \ vfields, value, type_)), L)
            ELSE IF L.failonextra /\ \E k \in DictKeys(value.pv) : k.k # "str"
            THEN R(Raise(PyExc("TypeError", "sequence item: expected str instance")), L)
            ELSE IF L.failonextra /\ extra_fields # {}
            THEN R(Raise(TypedloadValueError("Dictionary has unrecognized fields and cannot be loaded", extra_fields, value, type_)), L)
            ELSE Params(ObjLoop(L, fields, type_hints, value, type_, [i |-> 1, params |-> <<>>], d))
        Keys(value) ==
            Check(value,
                  {k.pv : k \in {k \in DictKeys(value.pv) : k.k = "str"}},
                  {PyStr(k) : k \in {k \in DictKeys(value.pv) : ~(k.k = "str" /\ k.pv \in fields)}})
        \* lines 547-556: value = _dictequivalence(l, value)
        Equivalent(newvalue) ==
            IF value0.k # "dict" /\ newvalue = value0
            THEN R(Raise(TypedloadAttributeError("object has no attribute 'keys'", value0, type_)), L)
            ELSE Keys(IF value0.k = "dict" THEN value0 ELSE newvalue)
    IN Equivalent(_dictequivalence(L, value0))

\* the annotations of a record class, by field name
TypeHints(type_) == [name \in FieldNamesOf(type_.fields) |-> FieldIn(type_.fields, name).type]

\* _namedtupleload with every field taken for optional (lines 618-619 left out)
_namedtupleload_optional(L, value, type_, d) ==
    _objloader(L, FieldNamesOf(type_.fields), {}, TypeHints(type_), value, type_, d)

_namedtupleload(L, value, type_, d) ==
    LET fields == FieldNamesOf(type_.fields)
        optional_fields == {f.name : f \in {f \in SeqToSet(type_.fields) : f.hasdef}}
    IN _objloader(L, fields, fields \ optional_fields, TypeHints(type_), value, type_, d)

_typeddictload(L, value, type_, d) ==
    LET fields == FieldNamesOf(type_.fields)
        necessary_fields == {f.name : f \in {f \in SeqToSet(type_.fields) : ~f.hasdef}}
    IN _objloader(L, fields, necessary_fields, TypeHints(type_), value, type_, d)

\* _dataclassload, lines 496-515: what is computed once per class and cached
DataclassFields(type_) ==
    LET fs == SeqToSet(type_.fields)
        mangled == {f \in fs : f.ext # ""}
    IN [ fields |-> FieldNamesOf(type_.fields),
         necessary_fields |-> {f.name : f \in {f \in fs : f.init /\ ~f.hasdef}},
         type_hints |-> TypeHints(type_),
         transforms |-> [e \in {f.ext : f \in mangled} |-> (CHOOSE f \in mangled : f.ext = e).name] ]

_dataclassload(L, value, type_, d) ==
    LET hit == type_ \in DOMAIN L.objfieldscache
        \* lines 517-524: value = _mangle_names(...), then _objloader; the log
        \* tells what the call of _mangle_names was passed and how it left it
        Mangled(c, L1, m) ==
            IF m.ok THEN _objloader(L1, c.fields, c.necessary_fields, c.type_hints, m.val, type_, d)
            ELSE IF IsValueError(m.exc)
            THEN R(Raise(TypedloadValueError(m.exc.desc, m.exc.info, value, type_)), L1)
            ELSE R(Raise(TypedloadAttributeError(m.exc.desc, value, type_)), L1)
        Logged(c, L1, m) ==
            Mangled(c, [L1 EXCEPT !.log = Append(@, [f |-> "_mangle_names", t |-> type_, keys |-> {},
                                                     value |-> value, left |-> m.left])], m)
        Cached(c) ==
            Logged(c, IF hit THEN L ELSE [L EXCEPT !.objfieldscache = (type_ :> c) @@ @],
                   _mangle_names(c.transforms, value, L.failonextra))
    IN Cached(IF hit THEN L.objfieldscache[type_] ELSE DataclassFields(type_))

\* sorted_args.sort(key=lambda i: i in l.basictypes): a stable sort
SortedArgs(L, args) ==
    SelectSeq(args, LAMBDA t : t \notin L.basictypes) \o SelectSeq(args, LAMBDA t : t \in L.basictypes)

RECURSIVE DedupSeq(_)
\* the keys of a dict built from a sequence: the first occurrence of each
DedupSeq(s) ==
    IF s = <<>> THEN <<>>
    ELSE LET Add(init) == IF s[Len(s)] \in SeqToSet(init) THEN init ELSE Append(init, s[Len(s)])
         IN Add(DedupSeq(SubSeq(s, 1, Len(s) - 1)))

\* _unionload, lines 685-697: the (key, {literal: type}) pair of a union.
\* Later members overwrite the literals they share with earlier ones.
Discriminators(type_) ==
    LET \* lines 690-695: cachedict[literal] = t, in the order of data.items()
        Fill(args, data, key) ==
            LET last_with(lit) == CHOOSE i \in DOMAIN args :
                    lit \in data[i][key] /\ \A j \in DOMAIN args : lit \in data[j][key] => j <= i
            IN [key |-> key, cachedict |-> [lit \in UNION {data[i][key] : i \in DOMAIN args} |-> args[last_with(lit)]]]
        \* lines 687-690: the keys that have literals in every member
        Shared(args, data, keys) ==
            IF keys = {} THEN [key |-> "", cachedict |-> EmptyDict]
            ELSE Fill(args, data, CHOOSE k \in keys : TRUE)
        Data(args, data) ==
            Shared(args, data, {k \in DOMAIN data[1] : \A i \in DOMAIN args : k \in DOMAIN data[i]})
        Args(args) == Data(args, [i \in DOMAIN args |-> discriminatorliterals(args[i])])
    IN Args(DedupSeq(uniontypes(type_)))

\* the members left in their order: the preferred type is not bumped up
MoveToFront_never(s, t) == s

\* sorted_args.remove(t); sorted_args.insert(0, t)
MoveToFront(s, t) ==
    LET Insert(i) == <<t>> \o SubSeq(s, 1, i - 1) \o SubSeq(s, i + 1, Len(s))
    IN Insert(CHOOSE i \in DOMAIN s : s[i] = t /\ \A j \in 1 .. i - 1 : s[j] # t)

\* the loop left at the first success whatever uniondebugconflict is
Break_always(L) == TRUE

\* _unionload, lines 730-732: if not l.uniondebugconflict: break
Break(L) == ~L.uniondebugconflict

\* _unionload, lines 712-736: try the members in order
UnionLoop(L, value, type_, sorted_args, i, st, d, stop) ==
    IF i > Len(sorted_args) \/ stop THEN [out |-> Ok(None), L |-> L, st |-> st]
    ELSE LET t == sorted_args[i]
             \* lines 733-736: except TypedloadException as e
             caught(e, L1) == UnionLoop(L1, value, type_, sorted_args, i + 1,
                                 [st EXCEPT !.exceptions = Append(@, TraceInsert(e, TraceItem(value, type_, Annotation("union", t))))], d, FALSE)
             \* lines 728-732: r = f(l, value, t)
             Tried(r) ==
                 IF r.out.ok
                 THEN UnionLoop(r.L, value, type_, sorted_args, i + 1,
                          [st EXCEPT !.loaded_count = @ + 1, !.r = r.out.val], d, Break(L))
                 ELSE IF IsTypedload(r.out.exc) THEN caught(r.out.exc, r.L)
                 ELSE [out |-> r.out, L |-> r.L, st |-> st]
             \* lines 714-726: the handler of the member
             Member(h) ==
                 IF h.f = ""
                 THEN IF IsValueError(h.exc)
                      THEN caught(TypedloadValueError("Cannot deal with value of type (key of)", {}, value, t), L)
                      ELSE [out |-> Raise(h.exc), L |-> L, st |-> st]
                 ELSE Tried(Call(h.f, h.L, value, t, d))
         IN Member(Resolve(L, t))

\* _unionload, lines 670-756: order the members and try them
UnionMembers(L, value, type_, d) ==
    LET args == uniontypes(type_)
        sorted0 == SortedArgs(L, args)
        isobj == value.k = "dict"
        hit == type_ \in DOMAIN L.discriminatorcache
        \* lines 738-756: the outcome of the loop
        Return(lp) ==
            IF ~lp.out.ok THEN R(lp.out, lp.L)
            ELSE IF lp.st.loaded_count = 1 THEN R(Ok(lp.st.r), lp.L)
            ELSE IF lp.st.loaded_count = 0
            THEN R(Raise(Exc("TypedloadValueError", "Value could not be loaded into", {}, value, type_, lp.st.exceptions)), lp.L)
            ELSE R(Raise(Exc("TypedloadTypeError", "Value could be loaded into type n times", {ToString(lp.st.loaded_count)}, value, type_, lp.st.exceptions)), lp.L)
        Try(L1, sorted_args) ==
            Return(UnionLoop(L1, value, type_, sorted_args, 1, [loaded_count |-> 0, r |-> None, exceptions |-> <<>>], d, FALSE))
        \* lines 704-707: place the preferred type on top
        Bump(dc, L1, preferred) ==
            Try(L1, IF preferred = {} THEN sorted0
                    ELSE MoveToFront(sorted0, dc.cachedict[CHOOSE lit \in preferred : TRUE]))
        \* lines 702-703: discriminatorscache[1].get(value.get(discriminatorscache[0]))
        Get(dc, L1, tag) ==
            IF ~(isobj /\ DOMAIN dc.cachedict # {}) THEN Bump(dc, L1, {})
            ELSE IF ~Hashable(tag) THEN R(Raise(PyExc("TypeError", "unhashable type")), L1)
            ELSE Bump(dc, L1, {lit \in DOMAIN dc.cachedict : PyEq(lit, tag)})
        \* lines 677-698: the discriminators of the union, computed once
        Cached(dc) ==
            Get(dc, IF isobj /\ ~hit THEN [L EXCEPT !.discriminatorcache = (type_ :> dc) @@ @] ELSE L,
                IF isobj /\ StrV(dc.key) \in DictKeys(value.pv) THEN DictValue(value.pv, StrV(dc.key)) ELSE None)
    IN Cached(IF hit THEN L.discriminatorcache[type_] ELSE Discriminators(type_))

\* _unionload without lines 666-668: a value of a basic member type is
\* loaded like any other
_unionload_noshortcut(L, value, type_, d) == UnionMembers(L, value, type_, d)

\* _unionload: a value whose type is a basic member of the union is returned
\* as it is (lines 662-668), else the members are tried
_unionload(L, value, type_, d) ==
    LET args == uniontypes(type_)
        value_type == TypeOf(value)
    IN IF value_type \in L.basictypes /\ value_type \in SeqToSet(args) THEN R(Ok(value), L)
       ELSE UnionMembers(L, value, type_, d)

\* get_type_hints of an Enum class: the annotations written in its body
EnumHints(n) == <<>>

\* _enumload, lines 779-783: try the type hints of the class
EnumLoop(L, value, type_, hints, i, exceptions, d) ==
    IF i > Len(hints) THEN [out |-> Raise(NoExc), L |-> L, exceptions |-> exceptions]
    ELSE LET Made(r, c) ==
                 IF r.out.ok /\ c.ok THEN [out |-> c, L |-> r.L, exceptions |-> exceptions]
                 ELSE EnumLoop(r.L, value, type_, hints, i + 1, Append(exceptions, IF r.out.ok THEN c.exc ELSE r.out.exc), d)
             Loaded(r) == Made(r, IF r.out.ok THEN Construct(type_, r.out.val) ELSE r.out)
         IN Loaded(load(L, value, hints[i], Annotation("union", hints[i]), d))

_enumload(L, value, type_, d) ==
    LET Return(lp) ==
            IF lp.out.ok THEN R(lp.out, lp.L)
            ELSE R(Raise(Exc("TypedloadValueError", "Value could not be loaded into", {}, value, type_, lp.exceptions)), lp.L)
        Made(c) ==
            IF c.ok THEN R(c, L)
            ELSE Return(EnumLoop(L, value, type_, EnumHints(type_.n), 1, <<>>, d))
    IN Made(Construct(type_, value))

_forwardrefload(L, value, type_, d) ==
    IF L.frefs.none
    THEN R(Raise(TypedloadException("ForwardRef resolving is disabled for the loader", value, type_)), L)
    ELSE IF type_.n \notin DOMAIN L.frefs.d
    THEN R(Raise(TypedloadValueError("ForwardRef unknown", {type_.n}, value, type_)), L)
    ELSE load(L, value, L.frefs.d[type_.n], Annotation("forwardref", StrV(type_.n)), d)

_newtypeload(L, value, type_, d) == load(L, value, type_.args[1], NoAnnotation, d)

\* f(l, value, type_): one handler invocation, entered in the log
Call(f, L, value, type_, d) ==
    LET L1 == [L EXCEPT !.log = Append(@, [f |-> f, t |-> type_, keys |-> {}])]
    IN IF d = 0
       THEN R(Raise(PyExc("RecursionError", "maximum recursion depth exceeded")),
              [L EXCEPT !.log = Append(@, [f |-> "RecursionError", t |-> type_, keys |-> {}])])
       ELSE CASE f = "_noneload" -> _noneload(L1, value, type_, d - 1)
              [] f = "_unionload" -> _unionload(L1, value, type_, d - 1)
              [] f = "_basicload" -> _basicload(L1, value, type_, d - 1)
              [] f = "_enumload" -> _enumload(L1, value, type_, d - 1)
              [] f = "_tupleload" -> _tupleload(L1, value, type_, d - 1)
              [] f = "_iterload_list" -> _iterload(L1, value, type_, "list", d - 1)
              [] f = "_dictload" -> _dictload(L1, value, type_, d - 1)
              [] f = "_iterload_set" -> _iterload(L1, value, type_, "set", d - 1)
              [] f = "_iterload_frozenset" -> _iterload(L1, value, type_, "frozenset", d - 1)
              [] f = "_namedtupleload" -> _namedtupleload(L1, value, type_, d - 1)
              [] f = "_dataclassload" -> _dataclassload(L1, value, type_, d - 1)
              [] f = "_forwardrefload" -> _forwardrefload(L1, value, type_, d - 1)
              [] f = "_literalload" -> _literalload(L1, value, type_, d - 1)
              [] f = "_typeddictload" -> _typeddictload(L1, value, type_, d - 1)
              [] f = "_anyload" -> _anyload(L1, value, type_, d - 1)
              [] f = "_newtypeload" -> _newtypeload(L1, value, type_, d - 1)
              [] f = "_q" -> R(Ok(ObjV(T_Q, EmptyDict)), L1)
              [] f = "_fortytwo" -> R(Ok(IntV(42)), L1)
              [] f = "_none" -> R(Ok(None), L1)
              [] OTHER -> R(Raise(PyExc("NotImplementedError", f)), L1)

(***************************************************************************)
(* The Dumper (datadumper.py): a record of options and caches, received    *)
(* and returned by every dump handler.  setorder is the order in which the *)
(* interpreter iterates the set of field names in _dataclassdump.          *)
(***************************************************************************)
DumpHandlers == <<"_identitydump", "_namedtupledump", "_dataclassdump", "_iteratordump", "_enumdump",
                  "_mappingdump", "_attrdump", "_datetimedump", "_timedeltadump", "_patterndump", "_strdump">>

DefaultDumper ==
    [basictypes |-> {T_int, T_bool, T_float, T_str, NONETYPE},
     hidedefault |-> TRUE,
     raiseconditionerrors |-> TRUE,
     handlers |-> DumpHandlers,
     handlerscache |-> EmptyDict,
     dataclasscache |-> {},
     setorder |-> "forward"]

\* the condition of each dump handler, applied to a value: "T", "F", or the
\* class of the exception it raises.  A program adds
\*   lambda v: isinstance(v, Q)     (test_custom_handler), giving 12
\*   lambda v: 'a' + v is None      (test_broken_handler): TypeError unless v is a str
\*   lambda v: v == ''              : a predicate on the value, giving None
DumpCond(D, name, value) ==
    IF name = "_broken" THEN (IF value.k = "str" THEN "F" ELSE "TypeError")
    ELSE LET b ==
    CASE name = "_identitydump" -> TypeOf(value) \in D.basictypes
      [] name = "_twelve" -> value.k = "obj" /\ value.cls = T_Q
      [] name = "_blank" -> value = StrV("")
      [] name = "_namedtupledump" -> value.k = "obj" /\ value.cls.k = "namedtuple"
      [] name = "_dataclassdump" -> value.k = "obj" /\ value.cls.k = "dataclass"
      [] name = "_iteratordump" -> value.k \in {"list", "tuple", "set", "frozenset"}
      [] name = "_enumdump" -> value.k = "enum"
      [] name = "_mappingdump" -> value.k = "dict"
      [] name = "_attrdump" -> value.k = "obj" /\ is_attrs(value.cls)
      [] OTHER -> FALSE
         IN IF b THEN "T" ELSE "F"

RECURSIVE dump_index_from(_, _, _)
\* the loop of Dumper.index, from position i on
dump_index_from(D, value, i) ==
    IF i > Len(D.handlers)
    THEN [i |-> 0, exc |-> TypedloadValueError("Unable to dump", {}, value, TypeOf(value))]
    ELSE LET Decide(c) ==
                 IF c = "T" THEN [i |-> i, exc |-> NoExc]
                 ELSE IF c = "F" THEN dump_index_from(D, value, i + 1)
                 ELSE IF D.raiseconditionerrors THEN [i |-> 0, exc |-> PyExc(c, "condition")]
                 ELSE dump_index_from(D, value, i + 1)
         IN Decide(DumpCond(D, D.handlers[i], value))

\* Dumper.index: the position of the first handler whose condition accepts
\* the value (i = 0 with the exception raised when there is none)
dump_index(D, value) == dump_index_from(D, value, 1)

Reverse(s) == [i \in DOMAIN s |-> s[Len(s) + 1 - i]]

RECURSIVE dump(_, _, _, _), DumpCall(_, _, _, _, _), DumpSeq(_, _, _, _, _), DumpItems(_, _, _, _, _)
RECURSIVE AttrLoop(_, _, _, _, _, _), _attrdump(_, _, _, _)
RECURSIVE DumpFields(_, _, _, _, _, _), _namedtupledump(_, _, _, _), _dataclassdump(_, _, _, _), _iteratordump(_, _, _, _)

\* Dumper.dump
dump(D, value, annotated_type, d) ==
    LET t == TypeOf(value)
    IN IF t \in DOMAIN D.handlerscache
       THEN DumpCall(D.handlerscache[t], D, value, annotated_type, d)
       ELSE LET Found(ix) ==
                    IF ix.i = 0
                    THEN R(Raise(ix.exc), D)
                    ELSE LET func == D.handlers[ix.i]
                             D1 == [D EXCEPT !.handlerscache = (t :> func) @@ @]
                         IN DumpCall(func, D1, value, annotated_type, d)
            IN Found(dump_index(D, value))

\* [d.dump(i) for i in items]
DumpSeq(D, items, i, acc, d) ==
    IF i > Len(items) THEN R(Ok(acc), D)
    ELSE LET Item(r) ==
                 IF ~r.out.ok THEN r
                 ELSE DumpSeq(r.L, items, i + 1, Append(acc, r.out.val), d)
         IN Item(dump(D, items[i], T_Any, d))

\* {l.dump(k): l.dump(v) for k, v in value.items()}
DumpItems(D, items, i, acc, d) ==
    IF i > Len(items) THEN R(Ok(DictV(acc)), D)
    ELSE LET Item(rk, rv) ==
                 IF ~rv.out.ok THEN rv
                 ELSE IF ~Hashable(rk.out.val)
                 THEN R(Raise(PyExc("TypeError", "unhashable type")), rv.L)
                 ELSE DumpItems(rv.L, items, i + 1, DictSet(acc, rk.out.val, rv.out.val), d)
             Key(rk) ==
                 IF ~rk.out.ok THEN rk
                 ELSE Item(rk, dump(rk.L, items[i][2], T_Any, d))
         IN Key(dump(D, items[i][1], T_Any, d))

\* the dict comprehension of a record dump: fields equal to their default
\* are left out under hidedefault; a dataclass dumps under the mangled name
\* and passes the field's type hint on, a named tuple does neither
\* the test below taken without d.hidedefault: a field equal to its default
\* is always left out
Hidden_always(D, f, v) == f.hasdef /\ PyEq(f.def, v)

\* not d.hidedefault or f not in defaults or defaults[f] != value, negated:
\* the field is left out of the dump
Hidden(D, f, v) == D.hidedefault /\ f.hasdef /\ PyEq(f.def, v)

DumpFields(D, value, fields, i, acc, d) ==
    IF i > Len(fields) THEN R(Ok(DictV(acc)), D)
    ELSE LET f == fields[i]
             v == value.pv[f.name]
             dataclass == value.cls.k = "dataclass"
             key == IF dataclass /\ f.ext # "" THEN f.ext ELSE f.name
         IN IF Hidden(D, f, v)
            THEN DumpFields(D, value, fields, i + 1, acc, d)
            ELSE LET Field(r) ==
                         IF ~r.out.ok THEN r
                         ELSE DumpFields(r.L, value, fields, i + 1, DictSet(acc, StrV(key), r.out.val), d)
                 IN Field(dump(D, v, IF dataclass THEN f.type ELSE T_Any, d))

_identitydump(D, value, t, d) == R(Ok(value), D)

_namedtupledump(D, value, t, d) == DumpFields(D, value, value.cls.fields, 1, <<>>, d)

_dataclassdump(D, value, t, d) ==
    LET D1 == [D EXCEPT !.dataclasscache = @ \cup {TypeOf(value)}]
        fields == IF D.setorder = "forward" THEN value.cls.fields ELSE Reverse(value.cls.fields)
    IN DumpFields(D1, value, fields, 1, <<>>, d)

_iteratordump(D, value, t, d) ==
    LET itertypes == IF t.args = <<>> THEN <<T_Any>> ELSE t.args
        itertype == IF Len(itertypes) = 1 \/ (Len(itertypes) = 2 /\ itertypes[2] = Ellipsis)
                    THEN itertypes[1] ELSE T_Any
        Return(r) == IF r.out.ok THEN R(Ok(ListV(r.out.val)), r.L) ELSE r
    IN IF itertype \in D.basictypes /\ D.handlers[1] = "_identitydump"
       THEN R(Ok(ListV(PyIter(value).items)), D)
       ELSE Return(DumpSeq(D, PyIter(value).items, 1, <<>>, d))

\* _attrdump, lines 208-218: the loop over value.__attrs_attrs__
AttrLoop(D, value, fields, i, acc, d) ==
    IF i > Len(fields) THEN R(Ok(DictV(acc)), D)
    ELSE LET attr == fields[i]
             attrval == value.pv[attr.name]
             name == IF attr.ext # "" THEN attr.ext ELSE attr.name
             Field(r) ==
                 IF ~r.out.ok THEN r
                 ELSE AttrLoop(r.L, value, fields, i + 1, DictSet(acc, StrV(name), r.out.val), d)
         IN IF ~attr.repr THEN AttrLoop(D, value, fields, i + 1, acc, d)
            ELSE IF Hidden(D, attr, attrval) THEN AttrLoop(D, value, fields, i + 1, acc, d)
            ELSE Field(dump(D, attrval, T_Any, d))

_attrdump(D, value, t, d) == AttrLoop(D, value, value.cls.fields, 1, <<>>, d)

\* func(self, value, annotated_type)
DumpCall(func, D, value, annotated_type, d) ==
    IF d = 0 THEN R(Raise(PyExc("RecursionError", "maximum recursion depth exceeded")), D)
    ELSE CASE func = "_identitydump" -> _identitydump(D, value, annotated_type, d - 1)
           [] func = "_namedtupledump" -> _namedtupledump(D, value, annotated_type, d - 1)
           [] func = "_dataclassdump" -> _dataclassdump(D, value, annotated_type, d - 1)
           [] func = "_iteratordump" -> _iteratordump(D, value, annotated_type, d - 1)
           [] func = "_enumdump" -> dump(D, value.pv, T_Any, d - 1)
           [] func = "_attrdump" -> _attrdump(D, value, annotated_type, d - 1)
           [] func = "_mappingdump" -> DumpItems(D, value.pv, 1, <<>>, d - 1)
           [] func = "_twelve" -> R(Ok(IntV(12)), D)
           [] func = "_broken" -> R(Ok(None), D)
           [] func = "_blank" -> R(Ok(None), D)
           [] OTHER -> R(Raise(PyExc("NotImplementedError", func)), D)

(***************************************************************************)
(* The state machine.  loader and dumper are the Loader and Dumper objects *)
(* most recently constructed, request the call a one-shot run of the       *)
(* module-level functions makes, last the latest call: its arguments, its  *)
(* outcome, the handler invocations it made (log) and the loader before    *)
(* and after it.                                                           *)
(***************************************************************************)
Kwargs(basiccast, failonextra, uniondebugconflict, dictequivalence, frefs_none) ==
    [basiccast |-> basiccast, failonextra |-> failonextra, uniondebugconflict |-> uniondebugconflict,
     dictequivalence |-> dictequivalence, frefs_none |-> frefs_none, frefs |-> EmptyDict]

\* the named arguments with frefs = d, a dictionary from names to types
Seeded(kwargs, d) == [kwargs EXCEPT !.frefs = d]

NoKwargs == Kwargs(TRUE, FALSE, FALSE, TRUE, FALSE)

\* Loader(**kwargs)
Loader(kwargs) ==
    [DefaultLoader EXCEPT !.basiccast = kwargs.basiccast,
                          !.failonextra = kwargs.failonextra,
                          !.uniondebugconflict = kwargs.uniondebugconflict,
                          !.dictequivalence = kwargs.dictequivalence,
                          !.frefs = [none |-> kwargs.frefs_none, d |-> kwargs.frefs]]

Request(f, value, type_, kwargs) == [f |-> f, value |-> value, type_ |-> type_, kwargs |-> kwargs]
NoRequest == Request("", None, NoType, NoKwargs)

Called(op, value, type_, kwargs, dumped, out, log, before, after) ==
    [op |-> op, value |-> value, type_ |-> type_, kwargs |-> kwargs, dumped |-> dumped,
     out |-> out, log |-> log, before |-> before, after |-> after]
NoCall == Called("", None, NoType, NoKwargs, Ok(None), Ok(None), <<>>, DefaultLoader, DefaultLoader)

\* the record of a call of Loader.load that gave r on the loader before: the
\* log of the handler invocations is taken out of the loader
Loaded(op, value, type_, kwargs, dumped, before, r) ==
    Called(op, value, type_, kwargs, dumped, r.out, r.L.log, before, [r.L EXCEPT !.log = <<>>])

\* typedload.load(value, type_, **kwargs): a fresh Loader serves the one call
typedload_load ==
    /\ request.f = "load"
    /\ last = NoCall
    /\ last' = Loaded("load", request.value, request.type_, request.kwargs, Ok(None), Loader(request.kwargs),
                      load(Loader(request.kwargs), request.value, request.type_, NoAnnotation, MaxDepth))
    /\ loader' = last'.after
    /\ UNCHANGED <<dumper, request>>

\* load(dump(value), type_): typedload.dump with a fresh Dumper, then
\* typedload.load of what it returned
dump_load ==
    /\ request.f = "dump_load"
    /\ last = NoCall
    /\ \E setorder \in {"forward", "reverse"} :
          LET before == Loader(request.kwargs)
              Dumped(rd) ==
                  /\ dumper' = rd.L
                  /\ last' = Loaded("dump_load", request.value, request.type_, request.kwargs, rd.out, before,
                                    IF rd.out.ok THEN load(before, rd.out.val, request.type_, NoAnnotation, MaxDepth)
                                    ELSE R(rd.out, before))
          IN Dumped(dump([DefaultDumper EXCEPT !.setorder = setorder], request.value, T_Any, MaxDepth))
    /\ loader' = last'.after
    /\ UNCHANGED request

\* the named arguments of typedload.dump
DumpKwargs(hidedefault) == [hidedefault |-> hidedefault]

\* typedload.dump(value, **kwargs): a fresh Dumper serves the one call
typedload_dump ==
    /\ request.f = "dump"
    /\ last = NoCall
    /\ LET Dumped(rd) ==
               /\ dumper' = rd.L
               /\ last' = Called("dump", request.value, request.type_, request.kwargs, rd.out, rd.out, <<>>, loader, loader)
       IN Dumped(dump([DefaultDumper EXCEPT !.hidedefault = request.kwargs.hidedefault], request.value, T_Any, MaxDepth))
    /\ UNCHANGED <<loader, request>>

\* loader = Loader(**kwargs)
Loader_new(kwargs) ==
    /\ request = NoRequest
    /\ loader' = Loader(kwargs)
    /\ last' = Called("Loader", None, NoType, kwargs, Ok(None), Ok(None), <<>>, loader, Loader(kwargs))
    /\ UNCHANGED <<dumper, request>>

\* loader.load(value, type_) on the long-lived loader
Loader_load(value, type_) ==
    /\ request = NoRequest
    /\ last' = Loaded("Loader.load", value, type_, NoKwargs, Ok(None), loader,
                      load(loader, value, type_, NoAnnotation, MaxDepth))
    /\ loader' = last'.after
    /\ UNCHANGED <<dumper, request>>

(***************************************************************************)
(* The inputs the calls are made with.                                     *)
(***************************************************************************)
RECURSIVE SeqsUpTo(_, _)
\* the sequences over S of length at most n
SeqsUpTo(S, n) ==
    IF n = 0 THEN {<<>>}
    ELSE LET shorter == SeqsUpTo(S, n - 1)
         IN shorter \cup {Append(s, e) : s \in {t \in shorter : Len(t) = n - 1}, e \in S}

RECURSIVE SubSeqs(_)
\* the subsequences of s
SubSeqs(s) ==
    IF s = <<>> THEN {<<>>}
    ELSE LET rest == SubSeqs(Tail(s)) IN rest \cup {<<Head(s)>> \o r : r \in rest}

\* the key a field is loaded from and dumped to
ExtName(f) == IF f.ext # "" THEN f.ext ELSE f.name

RECURSIVE Sample(_)
\* a plain value that loads into the type
Sample(t) ==
    CASE t = T_int -> IntV(1)
      [] t = T_str -> StrV("s")
      [] t = T_float -> FloatV(15)
      [] t = T_bool -> BoolV(TRUE)
      [] t = NONETYPE -> None
      [] t.k = "union" -> IF NONETYPE \in SeqToSet(t.args) THEN None ELSE Sample(t.args[1])
      [] t.k \in {"list", "set", "frozenset"} -> ListV(<<Sample(t.args[1])>>)
      [] t.k = "tuple" /\ Len(t.args) = 2 /\ t.args[2] = Ellipsis -> ListV(<<Sample(t.args[1])>>)
      [] t.k = "tuple" -> ListV([i \in DOMAIN t.args |-> Sample(t.args[i])])
      [] t.k = "dict" -> DictV(<<<<Sample(t.args[1]), Sample(t.args[2])>>>>)
      [] t.k \in {"namedtuple", "dataclass", "typeddict"} ->
            DictV([i \in DOMAIN ClassFields(t.n) |-> <<StrV(ExtName(ClassFields(t.n)[i])), Sample(ClassFields(t.n)[i].type)>>])
      [] t.k = "literal" -> CHOOSE v \in LiteralArgs(t.n) : TRUE
      [] t.k = "enum" -> CHOOSE v \in EnumMembers(t.n) : TRUE
      [] OTHER -> IntV(1)

\* a value no field of the fixtures accepts as its own
Marker == IntV(9)

\* the items a mapping loaded into record class n is built from: one per
\* field under its external name, the internal names of the mangled fields,
\* an undeclared string key and an undeclared integer key
RecordItems(n) ==
    LET fs == ClassFields(n)
        declared == [i \in DOMAIN fs |-> <<StrV(ExtName(fs[i])), Sample(fs[i].type)>>]
        internal == SelectSeq([i \in DOMAIN fs |-> <<StrV(fs[i].name), Marker>>],
                              LAMBDA it : \A i \in DOMAIN fs : ExtName(fs[i]) # it[1].pv)
    IN declared \o internal \o <<<<StrV("zz"), Marker>>, <<IntV(3), Marker>>>>

RecordTypes == {T_Point, T_Student, T_B, T_Mangle, T_Swap, T_Conf, T_Movie}

RecordRequests ==
    UNION {{Request("load", DictV(m), T, Kwargs(TRUE, failonextra, FALSE, TRUE, FALSE)) :
                m \in SubSeqs(RecordItems(T.n)), failonextra \in BOOLEAN} : T \in RecordTypes}

BasicTypes == {T_int, T_float, T_str, T_bool, NONETYPE}

ScalarInputs ==
    {None, IntV(0), IntV(3), BoolV(TRUE), BoolV(FALSE), FloatV(15), FloatV(20), StrV("3"), StrV("x"),
     StrV("1.5"), StrV(""), ListV(<<IntV(1)>>), DictV(<<>>)}

BasicRequests ==
    {Request("load", v, T, Kwargs(basiccast, FALSE, FALSE, TRUE, FALSE)) :
        v \in ScalarInputs, T \in BasicTypes, basiccast \in BOOLEAN}

BasicUnions ==
    {UnionOf(<<T_int, T_str>>), UnionOf(<<T_str, T_int>>), OptionalOf(T_int), UnionOf(<<NONETYPE, T_int>>),
     UnionOf(<<T_int, T_float, T_str>>), UnionOf(<<T_str, T_float, T_int>>), UnionOf(<<T_bool, T_int>>),
     UnionOf(<<T_int, T_bool>>), UnionOf(<<ListOf(T_int), T_int>>), UnionOf(<<T_int, ListOf(T_int)>>),
     UnionOf(<<T_Point, T_str>>), UnionOf(<<T_str, T_Point>>), UnionOf(<<T_float, T_str>>)}

BasicUnionRequests ==
    {Request("load", v, U, Kwargs(basiccast, FALSE, uniondebugconflict, TRUE, FALSE)) :
        v \in ScalarInputs, U \in BasicUnions, basiccast \in BOOLEAN, uniondebugconflict \in BOOLEAN}

\* mappings for the tagged records A and B: any tag or none, a good, a
\* castable, a bad or no val, with or without an undeclared key
TaggedMappings ==
    {kind \o val \o zz :
        kind \in {<<>>} \cup {<<<<StrV("kind"), StrV(tag)>>>> : tag \in {"a", "b", "c", "z"}},
        val \in {<<>>} \cup {<<<<StrV("val"), v>>>> : v \in {IntV(1), StrV("3"), StrV("x")}},
        zz \in {<<>>, <<<<StrV("zz"), Marker>>>>}}

TaggedUnions == {UnionOf(<<T_A, T_B>>), UnionOf(<<T_B, T_A>>)}

TaggedRequests ==
    {Request("load", DictV(m), U, Kwargs(basiccast, failonextra, uniondebugconflict, TRUE, FALSE)) :
        m \in TaggedMappings, U \in TaggedUnions,
        basiccast \in BOOLEAN, failonextra \in BOOLEAN, uniondebugconflict \in BOOLEAN}

\* the flat sequences fed to the sequence loaders: good items and bad ones
FlatItems == SeqsUpTo({IntV(1), StrV("x")}, MaxLen)

\* values that are no sized sequence
NonSized == {None, IntV(5), GeneratorV(<<IntV(1), IntV(1)>>)}

SeqInputs ==
    {ListV(s) : s \in FlatItems} \cup {TupleV(s) : s \in FlatItems} \cup {GeneratorV(s) : s \in FlatItems}
    \cup {ListV(<<ListV(s)>>) : s \in FlatItems}
    \cup {ListV(<<ListV(<<IntV(1), IntV(1)>>), ListV(s)>>) : s \in FlatItems}
    \cup {ListV(<<e>>) : e \in NonSized}
    \cup {ListV(<<ListV(<<IntV(1), IntV(1)>>), e>>) : e \in NonSized}
    \cup {TupleV(<<IntV(1), e>>) : e \in NonSized \cup {ListV(s) : s \in FlatItems}}
    \cup {DictV(<<<<StrV(key), ListV(s)>>>>) : key \in {"a", "open_ports"}, s \in FlatItems}
    \cup {DictV(<<<<StrV(key), e>>>>) : key \in {"a", "open_ports"}, e \in NonSized}
    \cup {ListV(<<DictV(<<<<StrV("open_ports"), ListV(s)>>>>)>>) : s \in FlatItems}
    \cup NonSized \cup {StrV("1x"), DictV(<<>>), SetV({IntV(1)})}
    \cup {ListV(<<IntV(1), IntV(1), IntV(1)>>), ListV(<<IntV(1), IntV(1), StrV("x")>>)}

SeqTypes ==
    {ListOf(T_int), SetOf(T_int), FrozenSetOf(T_int), VarTupleOf(T_int), TupleOf(<<T_int, T_int>>),
     ListOf(ListOf(T_int)), ListOf(TupleOf(<<T_int, T_int>>)), ListOf(VarTupleOf(T_int)), SetOf(ListOf(T_int)),
     TupleOf(<<T_int, TupleOf(<<T_int, T_int>>)>>), TupleOf(<<T_int, ListOf(T_int)>>),
     T_Firewall, T_Pair, ListOf(T_Firewall), OptionalOf(TupleOf(<<T_int, T_int>>)), DictOf(T_str, ListOf(T_int))}

SeqRequests ==
    {Request("load", v, T, Kwargs(basiccast, failonextra, FALSE, TRUE, FALSE)) :
        v \in SeqInputs, T \in SeqTypes, basiccast \in BOOLEAN, failonextra \in BOOLEAN}

\* a declared type no handler accepts, at the root and at each place a
\* type nests, with a value of the right shape for the type around it
UnhandledCases ==
    {<<IntV(1), T_Unk>>, <<None, T_Unk>>,
     <<ListV(<<IntV(1), IntV(1)>>), TupleOf(<<T_int, T_Unk>>)>>,
     <<ListV(<<IntV(1), IntV(1)>>), TupleOf(<<T_Unk, T_int>>)>>,
     <<DictV(<<<<IntV(1), IntV(1)>>>>), DictOf(T_Unk, T_int)>>,
     <<DictV(<<<<IntV(1), IntV(1)>>>>), DictOf(T_int, T_Unk)>>,
     <<DictV(<<<<IntV(1), IntV(1)>>>>), DictOf(T_Unk, T_Unk)>>,
     <<DictV(<<>>), DictOf(T_Unk, T_int)>>,
     <<DictV(<<>>), DictOf(T_int, T_Unk)>>,
     <<DictV(<<<<StrV("item"), IntV(1)>>>>), T_Box>>,
     <<ListV(<<DictV(<<<<StrV("item"), IntV(1)>>>>)>>), ListOf(T_Box)>>,
     <<ListV(<<ListV(<<IntV(1)>>)>>), ListOf(ListOf(T_Unk))>>,
     <<DictV(<<<<StrV("a"), ListV(<<IntV(1)>>)>>>>), DictOf(T_str, ListOf(T_Unk))>>}
    \cup {<<ListV(s), T>> : s \in FlatItems,
                            T \in {ListOf(T_Unk), SetOf(T_Unk), FrozenSetOf(T_Unk), VarTupleOf(T_Unk)}}

UnhandledRequests ==
    {Request("load", c[1], c[2], Kwargs(basiccast, failonextra, FALSE, TRUE, FALSE)) :
        c \in UnhandledCases, basiccast \in BOOLEAN, failonextra \in BOOLEAN}

RECURSIVE Inhabitants(_, _), FieldValues(_, _, _), TupleValues(_, _, _)
\* the values of a declared type: sequences, sets and mappings up to MaxLen
\* items (one item when the items are themselves structured), references
\* followed n times
Inhabitants(t, n) ==
    CASE t = T_int -> {IntV(0), IntV(2)}
      [] t = T_str -> {StrV("a")}
      [] t = T_bool -> {BoolV(TRUE), BoolV(FALSE)}
      [] t = T_float -> {FloatV(15)}
      [] t = NONETYPE -> {None}
      [] t.k = "union" -> UNION {Inhabitants(t.args[i], n) : i \in DOMAIN t.args}
      [] t.k = "forwardref" -> IF n = 0 THEN {} ELSE Inhabitants(NamedTupleT(t.n), n - 1)
      [] t.k = "literal" -> LiteralArgs(t.n)
      [] t.k = "enum" -> {EnumV(t, m) : m \in EnumMembers(t.n)}
      [] t.k = "list" ->
            {ListV(s) : s \in SeqsUpTo(Inhabitants(t.args[1], n), IF t.args[1] \in BasicTypes THEN MaxLen ELSE 1)}
      [] t.k = "set" -> {SetV(S) : S \in {X \in SUBSET Inhabitants(t.args[1], n) : Cardinality(X) <= MaxLen}}
      [] t.k = "frozenset" -> {FrozenSetV(S) : S \in {X \in SUBSET Inhabitants(t.args[1], n) : Cardinality(X) <= MaxLen}}
      [] t.k = "tuple" -> {TupleV(s) : s \in TupleValues(t.args, 1, n)}
      [] t.k = "dict" ->
            {DictV(<<>>)} \cup {DictV(<<<<key, v>>>>) : key \in Inhabitants(t.args[1], n), v \in Inhabitants(t.args[2], n)}
      [] t.k \in {"namedtuple", "dataclass", "attrs"} -> {ObjV(t, a) : a \in FieldValues(ClassFields(t.n), 1, n)}
      [] OTHER -> {}
FieldValues(fields, i, n) ==
    IF i > Len(fields) THEN {EmptyDict}
    ELSE {(fields[i].name :> v) @@ rest : v \in Inhabitants(fields[i].type, n), rest \in FieldValues(fields, i + 1, n)}
TupleValues(ts, i, n) ==
    IF i > Len(ts) THEN {<<>>}
    ELSE {<<v>> \o rest : v \in Inhabitants(ts[i], n), rest \in TupleValues(ts, i + 1, n)}

RoundTripTypes ==
    {T_Point, T_Student, T_A, T_B, T_Pair, T_Firewall, T_Mangle, T_Swap, T_Conf, T_ExamResults, T_Inventory,
     T_Node, T_Result, ListOf(T_Point), SetOf(T_int), TupleOf(<<T_int, T_str>>), DictOf(T_str, T_Point),
     DictOf(T_int, T_Result), DictOf(T_Result, T_int), OptionalOf(T_Point), ListOf(OptionalOf(T_Student))}

RoundTripRequests ==
    UNION {{Request("dump_load", x, T, NoKwargs) : x \in Inhabitants(T, MaxLen)} : T \in RoundTripTypes}

\* the record classes whose instances are dumped, with and without defaults
DumpTypes == {T_Point, T_Student, T_B, T_Swap, T_Mangle, T_Conf, T_Secret}

DumpRequests ==
    UNION {{Request("dump", x, T, DumpKwargs(hidedefault)) : x \in Inhabitants(T, 1), hidedefault \in BOOLEAN} : T \in DumpTypes}

RECURSIVE PlainChain(_)
\* the plain form of a chain of n Node records
PlainChain(n) ==
    DictV(<<<<StrV("value"), IntV(n)>>, <<StrV("next"), IF n = 1 THEN None ELSE PlainChain(n - 1)>>>>)

RECURSIVE Chain(_)
\* the chain of n Node instances
Chain(n) == ObjV(T_Node, [value |-> IntV(n), next |-> IF n = 1 THEN None ELSE Chain(n - 1)])

NodeCases ==
    {<<PlainChain(n), T_Node>> : n \in 1 .. MaxLen + 1}
    \cup {<<ListV(<<PlainChain(1)>>), ListOf(T_Node)>>, <<PlainChain(1), OptionalOf(T_Node)>>,
          <<DictV(<<<<StrV("a"), PlainChain(1)>>>>), DictOf(T_str, T_Node)>>,
          <<Sample(T_Point), T_Point>>}

NodeRequests ==
    {Request("load", c[1], c[2], Kwargs(TRUE, FALSE, FALSE, TRUE, frefs_none)) : c \in NodeCases, frefs_none \in BOOLEAN}

\* argparse.Namespace objects: their attributes are the declared keys of a
\* record class (or any two names for a Dict) and an undeclared name
NamespaceTypes == RecordTypes \cup {DictOf(T_str, T_int)}

NamespaceItems(T) ==
    IF T.k = "Dict" THEN <<<<StrV("a"), IntV(1)>>, <<StrV("b"), StrV("x")>>>>
    ELSE SelectSeq(RecordItems(T.n), LAMBDA it : it[1].k = "str")

NamespaceRequests ==
    UNION {{Request("load", NamespaceV(m), T, Kwargs(TRUE, failonextra, FALSE, dictequivalence, FALSE)) :
                m \in SubSeqs(NamespaceItems(T)), failonextra \in BOOLEAN, dictequivalence \in BOOLEAN} :
           T \in NamespaceTypes}

\* mappings whose keys and values load, or fail with an error of each
\* kind, at the first item or at a later one, at the item or below it
MappingCases ==
    {<<DictV(<<<<IntV(1), IntV(1)>>>>), DictOf(T_int, T_int)>>,
     <<DictV(<<<<StrV("q"), IntV(1)>>>>), DictOf(T_int, T_int)>>,
     <<DictV(<<<<IntV(1), StrV("q")>>>>), DictOf(T_int, T_int)>>,
     <<DictV(<<<<IntV(1), IntV(1)>>, <<IntV(2), StrV("q")>>>>), DictOf(T_int, T_int)>>,
     <<DictV(<<<<IntV(5), IntV(1)>>>>), DictOf(VarTupleOf(T_int), T_int)>>,
     <<DictV(<<<<StrV("a"), IntV(5)>>>>), DictOf(T_str, ListOf(T_int))>>,
     <<DictV(<<<<StrV("a"), DictV(<<<<StrV("open_ports"), IntV(5)>>>>)>>>>), DictOf(T_str, T_Firewall)>>,
     <<DictV(<<<<StrV("a"), DictV(<<<<StrV("open_ports"), ListV(<<StrV("q")>>)>>>>)>>>>), DictOf(T_str, T_Firewall)>>,
     <<DictV(<<<<StrV("a"), StrV("x")>>>>), DictOf(T_str, T_Point)>>,
     <<DictV(<<<<StrV("a"), Sample(T_Point)>>, <<StrV("b"), IntV(1)>>>>), DictOf(T_str, T_Point)>>,
     <<DictV(<<<<StrV("a"), IntV(1)>>>>), DictOf(T_Point, T_int)>>,
     <<DictV(<<<<StrV("a"), DictV(<<<<IntV(1), StrV("q")>>>>)>>>>), DictOf(T_str, DictOf(T_int, T_int))>>,
     <<DictV(<<<<StrV("a"), DictV(<<<<StrV("b"), IntV(1)>>>>)>>>>), DictOf(T_str, DictOf(T_str, T_Point))>>}

MappingRequests ==
    {Request("load", c[1], c[2], Kwargs(basiccast, FALSE, FALSE, TRUE, FALSE)) :
        c \in MappingCases, basiccast \in BOOLEAN}

\* lists of ints, bools and strings for the containers of a basic type or
\* of a union of basic types
ElementTypes == {T_int, T_float, UnionOf(<<T_int, T_str>>)}
ElementRequests ==
    {Request("load", ListV(s), C, Kwargs(basiccast, FALSE, FALSE, TRUE, FALSE)) :
        s \in SeqsUpTo({IntV(1), BoolV(TRUE), StrV("x")}, MaxLen),
        C \in UNION {{ListOf(t), SetOf(t), FrozenSetOf(t), VarTupleOf(t)} : t \in ElementTypes},
        basiccast \in BOOLEAN}

\* unions of tagged records whose Literal sets overlap: 'a' is a kind of A
\* and of C, 'c' a kind of B and of C
OverlapUnions == {UnionOf(<<T_A, T_C>>), UnionOf(<<T_C, T_A>>), UnionOf(<<T_B, T_C>>), UnionOf(<<T_A, T_B, T_C>>)}
OverlapRequests ==
    {Request("load", DictV(kind \o <<<<StrV("val"), IntV(1)>>>>), U, Kwargs(TRUE, FALSE, uniondebugconflict, TRUE, FALSE)) :
        kind \in {<<>>} \cup {<<<<StrV("kind"), StrV(tag)>>>> : tag \in {"a", "b", "c", "z"}},
        U \in OverlapUnions, uniondebugconflict \in BOOLEAN}

\* unions that mix basic members with a list or a fixed tuple, and values
\* that are no exact basic member
OrderUnions ==
    {UnionOf(<<TupleOf(<<T_int, T_int>>), T_str>>), UnionOf(<<T_str, TupleOf(<<T_int, T_int>>)>>),
     UnionOf(<<T_float, ListOf(T_int), T_int>>), UnionOf(<<T_float, T_Point, ListOf(T_int)>>)}
OrderRequests ==
    {Request("load", v, U, Kwargs(basiccast, FALSE, uniondebugconflict, TRUE, FALSE)) :
        v \in {IntV(5), StrV("3"), BoolV(TRUE), None, ListV(<<IntV(1), IntV(1)>>), ListV(<<StrV("x")>>), Sample(T_Point)},
        U \in OrderUnions, basiccast \in BOOLEAN, uniondebugconflict \in BOOLEAN}

\* unions whose members hold a union themselves
NestedUnions ==
    {UnionOf(<<ListOf(UnionOf(<<T_int, T_str>>)), ListOf(T_bool)>>),
     UnionOf(<<ListOf(T_bool), ListOf(UnionOf(<<T_int, T_str>>))>>),
     UnionOf(<<ListOf(OptionalOf(T_int)), T_str>>)}
NestedUnionRequests ==
    {Request("load", v, U, Kwargs(basiccast, FALSE, uniondebugconflict, TRUE, FALSE)) :
        v \in {ListV(<<>>), ListV(<<BoolV(TRUE)>>), ListV(<<IntV(1)>>), ListV(<<StrV("x")>>), ListV(<<None, StrV("3")>>)},
        U \in NestedUnions, basiccast \in BOOLEAN, uniondebugconflict \in BOOLEAN}

\* values loaded into the recursive schema X by a loader whose table binds
\* the name X: ints, nested lists, and strings
RecursiveInputs ==
    {IntV(1), None, ListV(<<>>), ListV(<<IntV(1), ListV(<<IntV(1)>>)>>), ListV(<<ListV(<<ListV(<<>>)>>)>>),
     ListV(<<IntV(1), None>>), StrV(""), StrV("x"), StrV("3"), ListV(<<StrV("x")>>)}
RecursiveRequests ==
    {Request("load", v, T_X, Seeded(Kwargs(basiccast, FALSE, FALSE, TRUE, FALSE), "X" :> T_X)) :
        v \in RecursiveInputs, basiccast \in BOOLEAN}

Requests ==
    RecursiveRequests \cup NestedUnionRequests \cup OrderRequests \cup OverlapRequests \cup ElementRequests \cup MappingRequests \cup NamespaceRequests \cup RecordRequests \cup BasicRequests \cup BasicUnionRequests \cup TaggedRequests \cup SeqRequests
    \cup UnhandledRequests \cup RoundTripRequests \cup NodeRequests \cup DumpRequests

(***************************************************************************)
(* One-shot runs: a program makes one call of a module-level function.     *)
(***************************************************************************)
Init ==
    /\ loader = DefaultLoader
    /\ dumper = DefaultDumper
    /\ request \in Requests
    /\ last = NoCall

Next == typedload_load \/ dump_load \/ typedload_dump

Spec == Init /\ [][Next]_vars

(***************************************************************************)
(* Sessions: a program keeps one Loader and loads with it again and again. *)
(***************************************************************************)
InitLoader ==
    /\ loader = DefaultLoader
    /\ dumper = DefaultDumper
    /\ request = NoRequest
    /\ last = NoCall

NextLoader ==
    \/ \E frefs_none \in BOOLEAN : Loader_new(Kwargs(TRUE, FALSE, FALSE, TRUE, frefs_none))
    \/ \E c \in NodeCases : Loader_load(c[1], c[2])

SpecLoader == InitLoader /\ [][NextLoader]_vars

(***************************************************************************)
(* Sessions on a loader whose forward-reference table the program seeds:   *)
(* Loader(frefs={...}), then loads of types that share a name (List[int]   *)
(* and List[Node] are both named List) or whose name is seeded.            *)
(***************************************************************************)
FrefSeeds == {EmptyDict, "Node" :> T_Point, "List" :> ListOf(T_str)}

FrefCases ==
    {<<PlainChain(1), T_Node>>, <<PlainChain(2), T_Node>>,
     <<DictV(<<<<StrV("value"), IntV(1)>>, <<StrV("next"), Sample(T_Point)>>>>), T_Node>>,
     <<ListV(<<IntV(1)>>), ListOf(T_int)>>, <<ListV(<<PlainChain(1)>>), ListOf(T_Node)>>,
     <<Sample(T_Point), T_Point>>}

InitFrefs ==
    /\ loader = DefaultLoader
    /\ dumper = DefaultDumper
    /\ request = NoRequest
    /\ last = NoCall

NextFrefs ==
    \/ \E d \in FrefSeeds : Loader_new(Seeded(NoKwargs, d))
    \/ \E c \in FrefCases : Loader_load(c[1], c[2])

SpecFrefs == InitFrefs /\ [][NextFrefs]_vars

(***************************************************************************)
(* Sessions of loads into unions of tagged records: the discriminators of  *)
(* a union are computed by the first load and cached for the later ones.   *)
(***************************************************************************)
TaggedCases ==
    {<<DictV(kind \o val), U>> :
        kind \in {<<>>} \cup {<<<<StrV("kind"), StrV(tag)>>>> : tag \in {"a", "b", "z"}},
        val \in {<<>>} \cup {<<<<StrV("val"), v>>>> : v \in {IntV(1), StrV("x")}},
        U \in TaggedUnions}

InitUnion ==
    /\ loader = DefaultLoader
    /\ dumper = DefaultDumper
    /\ request = NoRequest
    /\ last = NoCall

NextUnion ==
    \/ \E uniondebugconflict \in BOOLEAN : Loader_new(Kwargs(TRUE, FALSE, uniondebugconflict, TRUE, FALSE))
    \/ \E c \in TaggedCases : Loader_load(c[1], c[2])

SpecUnion == InitUnion /\ [][NextUnion]_vars

(***************************************************************************)
(* Sessions with handlers of the program's own: a Loader (a Dumper) is     *)
(* built, one handler is put in front of or behind the default ones,       *)
(* raiseconditionerrors is set, and then values are loaded (dumped).       *)
(***************************************************************************)
\* loader = Loader(); loader.handlers.insert(0, h) or loader.handlers.append(h);
\* loader.raiseconditionerrors = raiseconditionerrors
Loader_handlers(raiseconditionerrors, h, front) ==
    /\ request = NoRequest
    /\ loader' = [DefaultLoader EXCEPT !.raiseconditionerrors = raiseconditionerrors,
                                       !.handlers = IF front THEN <<h>> \o @ ELSE Append(@, h)]
    /\ last' = Called("Loader", None, NoType, NoKwargs, Ok(None), Ok(None), <<>>, loader, loader')
    /\ UNCHANGED <<dumper, request>>

HandlerCases ==
    {<<IntV(1), T_int>>, <<StrV("test"), T_Q>>,
     <<ListV(<<StrV("1")>>), ListOf(T_int)>>,
     <<DictV(<<<<StrV("a"), StrV("1")>>>>), DictOf(T_str, T_int)>>,
     <<ListV(<<StrV("1")>>), TupleOf(<<T_int>>)>>}

InitHandlers ==
    /\ loader = DefaultLoader
    /\ dumper = DefaultDumper
    /\ request = NoRequest
    /\ last = NoCall

NextHandlers ==
    \/ \E raiseconditionerrors \in BOOLEAN, h \in CustomHandlers, front \in BOOLEAN :
          Loader_handlers(raiseconditionerrors, h, front)
    \/ \E c \in HandlerCases : Loader_load(c[1], c[2])

SpecHandlers == InitHandlers /\ [][NextHandlers]_vars

\* dumper = Dumper(); dumper.handlers.insert(0, h) or dumper.handlers.append(h);
\* dumper.raiseconditionerrors = raiseconditionerrors
Dumper_handlers(raiseconditionerrors, h, front) ==
    /\ request = NoRequest
    /\ dumper' = [DefaultDumper EXCEPT !.raiseconditionerrors = raiseconditionerrors,
                                       !.handlers = IF front THEN <<h>> \o @ ELSE Append(@, h)]
    /\ last' = Called("Dumper", None, NoType, NoKwargs, Ok(None), Ok(None), <<>>, dumper, dumper')
    /\ UNCHANGED <<loader, request>>

\* dumper.dump(value) on the long-lived dumper
Dumper_dump(value) ==
    /\ request = NoRequest
    /\ LET Dumped(rd) ==
               /\ dumper' = rd.L
               /\ last' = Called("Dumper.dump", value, T_Any, NoKwargs, rd.out, rd.out, <<>>, dumper, rd.L)
       IN Dumped(dump(dumper, value, T_Any, MaxDepth))
    /\ UNCHANGED <<loader, request>>

DumpCases ==
    {IntV(1), StrV("x"), StrV(""), None, ListV(<<IntV(1)>>), ListV(<<StrV("x")>>), DictV(<<<<StrV("a"), IntV(1)>>>>),
     ObjV(T_Q, EmptyDict), ObjV(T_Point, [x |-> IntV(1), y |-> IntV(2)]), ListV(<<ObjV(T_Q, EmptyDict)>>)}

NextDumpHandlers ==
    \/ \E raiseconditionerrors \in BOOLEAN, h \in {"_broken", "_twelve", "_blank"}, front \in BOOLEAN :
          Dumper_handlers(raiseconditionerrors, h, front)
    \/ \E value \in DumpCases : Dumper_dump(value)

SpecDumpHandlers == InitHandlers /\ [][NextDumpHandlers]_vars

(***************************************************************************)
(* Sessions of loads into Dict types: the key type and the value type are  *)
(* basic or not, and their handlers are in the dispatch cache or not,      *)
(* according to what the loader has loaded before.                         *)
(***************************************************************************)
DictTypes == {DictOf(T_int, T_int), DictOf(T_Result, T_int), DictOf(T_Firewall, T_int), DictOf(T_Result, T_Point)}

DictCases ==
    {<<DictV(<<<<k, v>>>>), D>> :
        k \in {IntV(1), BoolV(TRUE)},
        v \in {IntV(1), StrV("x"), DictV(<<<<StrV("x"), IntV(1)>>, <<StrV("y"), StrV("2")>>>>)},
        D \in DictTypes}
    \cup {<<DictV(<<>>), D>> : D \in DictTypes}

\* loads that put the handlers of the key and value types in the cache
WarmCases == {<<IntV(1), T_int>>, <<Sample(T_Point), T_Point>>}

InitDict ==
    /\ loader = DefaultLoader
    /\ dumper = DefaultDumper
    /\ request = NoRequest
    /\ last = NoCall

NextDict ==
    \/ \E basiccast \in BOOLEAN : Loader_new(Kwargs(basiccast, FALSE, FALSE, TRUE, FALSE))
    \/ \E c \in WarmCases : Loader_load(c[1], c[2])
    \/ \E c \in DictCases : Loader_load(c[1], c[2])

SpecDict == InitDict /\ [][NextDict]_vars

(***************************************************************************)
(* Properties.  Each is stated on last, the record of the latest call.     *)
(***************************************************************************)
\* the kinds of error of exceptions.py
ValueKind(out) == ~out.ok /\ out.exc.cls = "TypedloadValueError"
TypeKind(out) == ~out.ok /\ out.exc.cls = "TypedloadTypeError"
AttributeKind(out) == ~out.ok /\ out.exc.cls = "TypedloadAttributeError"

\* the constructor calls of a record class that a log of handler calls holds
ConstructorCalls(log, type_) == {i \in DOMAIN log : log[i].f = "__new__" /\ log[i].t = type_}

\* the fields of a record class the constructor cannot do without
RequiredFields(n) == {f \in SeqToSet(ClassFields(n)) : f.init /\ ~f.hasdef}

\* the keys under which the fields of a record class are read
DeclaredKeys(n) == {StrV(ExtName(f)) : f \in SeqToSet(ClassFields(n))}

\* the required fields of record class n that mapping m has no key for
MissingFields(m, n) == {f.name : f \in {g \in RequiredFields(n) : StrV(ExtName(g)) \notin DictKeys(m.pv)}}

\* the keys of m that are the python name of a name-mangled field of n and
\* the data name of none: _mangle_names refuses them in strict mode
RefusedNames(m, n) ==
    {f.name : f \in {g \in SeqToSet(ClassFields(n)) :
        g.ext # "" /\ StrV(g.name) \in DictKeys(m.pv) /\ StrV(g.name) \notin DeclaredKeys(n)}}

\* a mapping is loaded into a record class of which it lacks a required field
C1_Case ==
    /\ last.op = "load"
    /\ last.type_ \in RecordTypes
    /\ last.value.k = "dict"
    /\ MissingFields(last.value, last.type_.n) # {}

\* C1 as stated: a mapping that lacks a required field of the record type
\* always raises a value-kind error that names the missing fields, and the
\* constructor of the record type is never called.
C1_MissingFieldNamed ==
    C1_Case =>
        /\ ValueKind(last.out)
        /\ last.out.exc.info = MissingFields(last.value, last.type_.n)
        /\ ConstructorCalls(last.log, last.type_) = {}

\* C1, amended: a mapping that lacks a required field of the record type
\* always raises a value-kind error and the constructor is never called; the
\* error names the missing fields, unless strict mode is on and the mapping
\* carries the python name of a name-mangled field, when it names that key.
C1_MissingFieldRaises ==
    C1_Case =>
        /\ ValueKind(last.out)
        /\ ConstructorCalls(last.log, last.type_) = {}
        /\ IF last.kwargs.failonextra /\ RefusedNames(last.value, last.type_.n) # {}
           THEN /\ last.out.exc.info # {}
                /\ last.out.exc.info \subseteq RefusedNames(last.value, last.type_.n)
           ELSE last.out.exc.info = MissingFields(last.value, last.type_.n)

\* a dataclass with a mangled field is loaded from a mapping that lacks a
\* required field, and the error names it
C1_Witness ==
    /\ C1_Case
    /\ last.type_ = T_Mangle
    /\ ValueKind(last.out)
    /\ last.out.exc.info = {"q"}

\* the mapping m cut down to the keys record class n declares
Restricted(m, n) == DictV(SelectSeq(m.pv, LAMBDA it : it[1] \in DeclaredKeys(n)))

\* a mapping with every required field and a key the record class does not
\* declare is loaded, and the declared part of it loads
C2_Case ==
    /\ last.op = "load"
    /\ last.type_ \in RecordTypes
    /\ last.value.k = "dict"
    /\ MissingFields(last.value, last.type_.n) = {}
    /\ DictKeys(last.value.pv) \ DeclaredKeys(last.type_.n) # {}
    /\ load(Loader(last.kwargs), Restricted(last.value, last.type_.n), last.type_, NoAnnotation, MaxDepth).out.ok

\* C2: a mapping with a key that is no declared field of the record type
\* loads, with strict mode off, to what the mapping without that key loads
\* to, and the key never reaches the constructor; with strict mode on it
\* raises a value-kind error.
C2_UndeclaredKey ==
    C2_Case =>
        IF last.kwargs.failonextra THEN ValueKind(last.out)
        ELSE /\ last.out.ok
             /\ last.out.val = load(Loader(last.kwargs), Restricted(last.value, last.type_.n),
                                    last.type_, NoAnnotation, MaxDepth).out.val
             /\ \A i \in ConstructorCalls(last.log, last.type_) : last.log[i].keys \subseteq FieldNames(last.type_.n)

\* the types _basicload is the handler of
CastTypes == {T_int, T_float, T_str, T_bool}

\* what the claim on basic types says of a call load(v, T): v itself when
\* type(v) is T, a value-kind error without basiccast, else T(v) or its failure
BasicOutcome(out, v, T, basiccast) ==
    IF TypeOf(v) = T THEN out = Ok(v)
    ELSE IF ~basiccast THEN ValueKind(out)
    ELSE IF Construct(T, v).ok THEN out = Construct(T, v)
    ELSE IF IsValueError(Construct(T, v).exc) THEN ValueKind(out)
    ELSE IsTypeError(Construct(T, v).exc) => TypeKind(out)

\* C3 as stated: for every basic type T (int, float, str, bool and the type
\* of None), load(v, T) returns v when type(v) is T, raises a value-kind
\* error when it is not and basiccast is off, and else returns T(v) or raises
\* the constructor's failure in the matching kind.
C3_BasicCastAllBasicTypes ==
    (last.op = "load" /\ last.type_ \in BasicTypes) =>
        BasicOutcome(last.out, last.value, last.type_, last.kwargs.basiccast)

\* C3, amended: for T one of int, float, str and bool, load(v, T) returns v
\* when type(v) is T, raises a value-kind error when it is not and basiccast
\* is off, and else returns T(v) or raises the constructor's failure in the
\* matching kind; for the type of None, load returns None when v is None and
\* raises a value-kind error otherwise, whatever basiccast is.
C3_BasicCast ==
    /\ (last.op = "load" /\ last.type_ \in CastTypes) =>
            BasicOutcome(last.out, last.value, last.type_, last.kwargs.basiccast)
    /\ (last.op = "load" /\ last.type_ = NONETYPE) =>
            IF last.value = None THEN last.out = Ok(None) ELSE ValueKind(last.out)

\* "3" is cast to the int 3
C3_Witness ==
    /\ last.op = "load"
    /\ last.type_ = T_int
    /\ last.value = StrV("3")
    /\ last.kwargs.basiccast
    /\ last.out = Ok(IntV(3))

\* the union with its members in the other order
Swapped(U) == UnionOf(Reverse(U.args))

\* two calls end alike: with equal values, or with errors of the same class
SameOutcome(a, b) ==
    /\ a.ok = b.ok
    /\ a.ok => a.val = b.val
    /\ ~a.ok => a.exc.cls = b.exc.cls

\* a mapping tagged for A is loaded into a union of the records A and B,
\* whose Literal field kind has disjoint values
C4_Case ==
    /\ last.op = "load"
    /\ last.type_ \in TaggedUnions
    /\ last.value.k = "dict"
    /\ StrV("kind") \in DictKeys(last.value.pv)
    /\ DictValue(last.value.pv, StrV("kind")) \in LiteralArgs("LitA")

\* C4: a mapping whose Literal field has a value of A loads into Union[A, B]
\* and into Union[B, A] with the same outcome, an instance of A or an error,
\* and never an instance of B.
C4_UnionOrder ==
    C4_Case =>
        /\ SameOutcome(last.out, load(Loader(last.kwargs), last.value, Swapped(last.type_), NoAnnotation, MaxDepth).out)
        /\ last.out.ok => (last.out.val.k = "obj" /\ last.out.val.cls = T_A)

\* data tagged for A loads into Union[B, A] as an A
C4_Witness ==
    /\ C4_Case
    /\ last.type_ = UnionOf(<<T_B, T_A>>)
    /\ last.out.ok
    /\ last.out.val.cls = T_A

\* a value whose type is a basic member of the union is loaded into it
C5_Case ==
    /\ last.op = "load"
    /\ last.type_.k = "union"
    /\ TypeOf(last.value) \in BasicTypes
    /\ TypeOf(last.value) \in SeqToSet(last.type_.args)

\* C5: a value whose exact type is a basic member of the union is returned
\* as it is, and the only handler invoked is the union's own: no member's
\* handler runs, whatever the order of the members, basiccast and
\* uniondebugconflict are.
C5_BasicMemberReturned ==
    C5_Case =>
        /\ last.out = Ok(last.value)
        /\ last.log = <<[f |-> "_unionload", t |-> last.type_, keys |-> {}]>>

\* the int 3 comes back from Union[str, int] with casting and conflict
\* debugging on
C5_Witness ==
    /\ C5_Case
    /\ last.type_ = UnionOf(<<T_str, T_int>>)
    /\ last.value = IntV(3)
    /\ last.kwargs.basiccast
    /\ last.kwargs.uniondebugconflict
    /\ last.out = Ok(IntV(3))

C7_ForwardRefBound ==
    \A n \in 1 .. MaxLen + 1 :
        (last.op = "Loader.load" /\ last.type_ = T_Node /\ last.value = PlainChain(n)) =>
            IF last.before.frefs.none THEN n > 1 => ~last.out.ok
            ELSE /\ last.out = Ok(Chain(n))
                 /\ "Node" \in DOMAIN last.after.frefs.d
                 /\ last.after.frefs.d["Node"] = T_Node

\* whether a fresh loader with these settings loads the value into the type
Loads(kwargs, v, T) == load(Loader(kwargs), v, T, NoAnnotation, MaxDepth).out.ok

\* the first position of a sequence that does not pass, 0 when all do
FirstNot(Pass(_), n) == IF \A i \in 1 .. n : Pass(i) THEN 0 ELSE CHOOSE i \in 1 .. n : ~Pass(i) /\ \A j \in 1 .. i - 1 : Pass(j)

\* the elements of a value as the loader of T walks them, paired with their
\* declared types and their path items; none when T has no elements or the
\* value is refused as a whole
Elements(kwargs, v, T) ==
    CASE T.k \in {"list", "set", "frozenset"} \/ (T.k = "tuple" /\ Len(T.args) = 2 /\ T.args[2] = Ellipsis) ->
            IF v.k = "dict" \/ ~PyIter(v).ok THEN <<>>
            ELSE [i \in DOMAIN PyIter(v).items |->
                    [value |-> PyIter(v).items[i], type_ |-> T.args[1], index |-> TRUE, item |-> "[" \o ToString(i - 1) \o "]"]]
      [] T.k = "tuple" ->
            IF v.k = "dict" \/ ~HasLen(v) \/ PyLen(v) < Len(T.args) \/ (kwargs.failonextra /\ PyLen(v) > Len(T.args)) THEN <<>>
            ELSE [i \in DOMAIN T.args |->
                    [value |-> PyIter(v).items[i], type_ |-> T.args[i], index |-> TRUE, item |-> "[" \o ToString(i - 1) \o "]"]]
      [] T.k \in {"namedtuple", "dataclass"} ->
            IF v.k # "dict" THEN <<>>
            ELSE IF DictKeys(v.pv) # {StrV(f.name) : f \in SeqToSet(ClassFields(T.n))} THEN <<>>
            ELSE [i \in DOMAIN v.pv |->
                    [value |-> v.pv[i][2],
                     type_ |-> (CHOOSE f \in SeqToSet(ClassFields(T.n)) : StrV(f.name) = v.pv[i][1]).type,
                     index |-> FALSE, item |-> v.pv[i][1].pv]]
      [] OTHER -> <<>>

RECURSIVE FailingPath(_, _, _, _)
\* the way from a value that does not load to the first element, and the
\* first element of that, that does not load: empty when the value is
\* refused as a whole
FailingPath(kwargs, v, T, d) ==
    LET Walk(es) ==
            LET Step(i) ==
                    IF i = 0 \/ d = 0 THEN <<>>
                    ELSE <<es[i]>> \o FailingPath(kwargs, es[i].value, es[i].type_, d - 1)
            IN Step(FirstNot(LAMBDA i : Loads(kwargs, es[i].value, es[i].type_), Len(es)))
    IN Walk(Elements(kwargs, v, T))

\* TypedloadException._path of a way through the data
PathStr(way) == IF way = <<>> THEN "." ELSE "." \o Join(".", [i \in DOMAIN way |-> way[i].item], 1)

\* the declared types made of sequences and of records that hold them; a set
\* of lists is left out: its elements load and are then refused by set()
PathTypes == SeqTypes \ {OptionalOf(TupleOf(<<T_int, T_int>>)), DictOf(T_str, ListOf(T_int)), SetOf(ListOf(T_int))}

\* a load fails at an element of a sequence: the last step of the way to the
\* failure is a position
C8_At(way) == way # <<>> /\ way[Len(way)].index

C8_Case ==
    /\ last.op = "load"
    /\ last.type_ \in PathTypes
    /\ ~last.out.ok
    /\ C8_At(FailingPath(last.kwargs, last.value, last.type_, MaxDepth))

\* C8: when a sequence, at top level or nested inside records and other
\* sequences, fails to load because of its element at position i, the
\* exception is of the typedload family, its trace starts at the root, and
\* its rendered path is the way to that element and ends with [i].
C8_PathEndsAtElement ==
    C8_Case =>
        /\ IsTypedload(last.out.exc)
        /\ last.out.exc.trace # <<>>
        /\ last.out.exc.trace[1].value = last.value
        /\ last.out.exc.trace[1].type_ = last.type_
        /\ _path(last.out.exc.trace) = PathStr(FailingPath(last.kwargs, last.value, last.type_, MaxDepth))

\* the element that does not load is a value without a length, declared as a
\* tuple of fixed length
C8_UnsizedTuple(way) ==
    /\ way[Len(way)].type_.k = "tuple"
    /\ ~(Len(way[Len(way)].type_.args) = 2 /\ way[Len(way)].type_.args[2] = Ellipsis)
    /\ ~HasLen(way[Len(way)].value)

\* the path ends at the element whenever that element is not a value without
\* a length declared as a tuple of fixed length
C8_PathElsewhere ==
    (C8_Case /\ ~C8_UnsizedTuple(FailingPath(last.kwargs, last.value, last.type_, MaxDepth))) =>
        _path(last.out.exc.trace) = PathStr(FailingPath(last.kwargs, last.value, last.type_, MaxDepth))

\* a list whose second element is a bad int fails at [1]
C8_Witness ==
    /\ C8_Case
    /\ last.type_ = ListOf(T_int)
    /\ last.value = ListV(<<IntV(1), StrV("x")>>)
    /\ _path(last.out.exc.trace) = ".[1]"

\* the declared types of the requests that a default handler accepts
\* everywhere
HandledRequest == request \notin UnhandledRequests

\* C9: a load either returns or raises an exception of the typedload family,
\* and a value that is no sized sequence, loaded into a list, set, frozenset
\* or tuple type, raises the type-kind one.
C9_OnlyTypedload ==
    (last.op = "load" /\ HandledRequest) =>
        /\ last.out.ok \/ IsTypedload(last.out.exc)
        /\ (last.value \in NonSized /\ last.type_.k \in {"list", "set", "frozenset", "tuple"}) => TypeKind(last.out)

\* a declared type that no handler accepts has to be loaded: the data holds
\* a value for it
C10_Case ==
    /\ last.op = "load"
    /\ <<last.value, last.type_>> \in UnhandledCases
    /\ last.value \notin {ListV(<<>>), DictV(<<>>)}

\* C10: when no handler accepts a declared type that must be loaded, the
\* load raises the type-kind exception.
C10_NoHandlerTypeKind == C10_Case => TypeKind(last.out)

\* a list or a tuple is loaded into a tuple type of fixed length
C12_Case ==
    /\ last.op = "load"
    /\ last.type_.k = "tuple"
    /\ ~(Len(last.type_.args) = 2 /\ last.type_.args[2] = Ellipsis)
    /\ last.value.k \in {"list", "tuple"}

\* the loads of the first items of s against the position types
C12_Positions(kwargs, s, args) ==
    [i \in DOMAIN args |-> load(Loader(kwargs), s[i], args[i], NoAnnotation, MaxDepth).out]

\* C12: a sequence shorter than a fixed tuple type raises a value-kind 'too
\* short' error whatever failonextra is; a longer one raises a value-kind 'too
\* long' error when failonextra is on, and else, like one of the same length,
\* gives the tuple of the loads of its first n items against the n position
\* types.
C12_FixedTupleLength ==
    C12_Case =>
        LET n == Len(last.type_.args)
            s == last.value.pv
        IN IF Len(s) < n
           THEN ValueKind(last.out) /\ last.out.exc.desc = "Value is too short for type"
           ELSE IF Len(s) > n /\ last.kwargs.failonextra
           THEN ValueKind(last.out) /\ last.out.exc.desc = "Value is too long for type"
           ELSE IF \A i \in 1 .. n : C12_Positions(last.kwargs, s, last.type_.args)[i].ok
           THEN last.out = Ok(TupleV([i \in 1 .. n |-> C12_Positions(last.kwargs, s, last.type_.args)[i].val]))
           ELSE ~last.out.ok

\* three items load into a pair as the first two, the third being no int
C12_Witness ==
    /\ C12_Case
    /\ last.type_ = TupleOf(<<T_int, T_int>>)
    /\ last.value = ListV(<<IntV(1), IntV(1), StrV("x")>>)
    /\ ~last.kwargs.failonextra
    /\ last.out = Ok(TupleV(<<IntV(1), IntV(1)>>))

\* an instance of a record class is dumped
C13_Case ==
    /\ last.op = "dump"
    /\ last.value.k = "obj"

\* the keys of the dump of the record
C13_Keys == IF last.dumped.ok /\ last.dumped.val.k = "dict" THEN DictKeys(last.dumped.val.pv) ELSE {}

\* field f of the dumped record has a default and holds it
C13_AtDefault(f) == f.hasdef /\ PyEq(f.def, last.value.pv[f.name])

\* C13 as stated: with hidedefault on a field is absent from the dump of a
\* record exactly when it has a default (or default factory) and holds it;
\* with hidedefault off every field is present.
C13_DefaultOmissionEveryField ==
    C13_Case =>
        /\ last.dumped.ok
        /\ \A f \in SeqToSet(ClassFields(last.type_.n)) :
              IF last.kwargs.hidedefault
              THEN StrV(ExtName(f)) \notin C13_Keys <=> C13_AtDefault(f)
              ELSE StrV(ExtName(f)) \in C13_Keys

\* C13, amended: the same for every field but those an attrs class declares
\* with repr=False, which are absent from the dump whatever they hold and
\* whatever hidedefault is.
C13_DefaultOmission ==
    C13_Case =>
        /\ last.dumped.ok
        /\ \A f \in SeqToSet(ClassFields(last.type_.n)) :
              IF ~f.repr THEN StrV(ExtName(f)) \notin C13_Keys
              ELSE IF last.kwargs.hidedefault
              THEN StrV(ExtName(f)) \notin C13_Keys <=> C13_AtDefault(f)
              ELSE StrV(ExtName(f)) \in C13_Keys

\* a dataclass holding its default under swapped names dumps the other field
\* only, and both when defaults are kept
C13_Witness ==
    /\ C13_Case
    /\ last.type_ = T_Swap
    /\ last.value.pv["b"] = IntV(2)
    /\ ~last.kwargs.hidedefault
    /\ C13_Keys = {StrV("a"), StrV("b")}

\* the value of the discriminating field of the mapping just loaded
C14_Tag == DictValue(last.value.pv, StrV(last.after.discriminatorcache[last.type_].key))

\* a mapping is loaded into a union of tagged records on a long-lived loader,
\* and the discriminator table of the union has a member for its tag
C14_Case ==
    /\ last.op = "Loader.load"
    /\ last.type_ \in TaggedUnions
    /\ last.value.k = "dict"
    /\ last.type_ \in DOMAIN last.after.discriminatorcache
    /\ StrV(last.after.discriminatorcache[last.type_].key) \in DictKeys(last.value.pv)
    /\ C14_Tag \in DOMAIN last.after.discriminatorcache[last.type_].cachedict

\* the member the discriminator table gives for the tag
C14_Member == last.after.discriminatorcache[last.type_].cachedict[C14_Tag]

\* C14: when the tag of the mapping maps to member M in the discriminator
\* table of the union, M's handler is the first member handler invoked, on
\* the first load of the union and on every later one; without
\* uniondebugconflict, when M loads, no handler or constructor of another
\* member is invoked at all.
C14_PreferredFirst ==
    C14_Case =>
        /\ Len(last.log) >= 2
        /\ last.log[1] = [f |-> "_unionload", t |-> last.type_, keys |-> {}]
        /\ last.log[2].t = C14_Member
        /\ (~last.before.uniondebugconflict /\ last.out.ok /\ last.out.val.cls = C14_Member) =>
              \A i \in DOMAIN last.log : last.log[i].t \in SeqToSet(last.type_.args) => last.log[i].t = C14_Member

\* the table is served from the cache and B, the second member, is tried
\* first and loads
C14_Witness ==
    /\ C14_Case
    /\ last.type_ = UnionOf(<<T_A, T_B>>)
    /\ last.type_ \in DOMAIN last.before.discriminatorcache
    /\ C14_Member = T_B
    /\ last.log[2].t = T_B
    /\ last.out.ok

\* a value that is no exact basic member is loaded into a union with
\* uniondebugconflict on
C15_Case ==
    /\ last.op = "load"
    /\ last.type_.k = "union"
    /\ last.kwargs.uniondebugconflict
    /\ ~(TypeOf(last.value) \in BasicTypes /\ TypeOf(last.value) \in SeqToSet(last.type_.args))

\* what loading the value into each member alone gives
C15_Alone == [i \in DOMAIN last.type_.args |->
                load(Loader(last.kwargs), last.value, last.type_.args[i], NoAnnotation, MaxDepth).out]

\* the members that load the value
C15_Successes == {i \in DOMAIN last.type_.args : C15_Alone[i].ok}

\* C15: with uniondebugconflict on every member of the union is attempted;
\* the load returns the result when exactly one member succeeds, raises a
\* value-kind error with one UNION-annotated sub-exception per member when
\* none does, and raises a type-kind error that reports the number of
\* successes when two or more do.
C15_DebugConflict ==
    C15_Case =>
        /\ \A i \in DOMAIN last.type_.args : \E j \in 2 .. Len(last.log) : last.log[j].t = last.type_.args[i]
        /\ Cardinality(C15_Successes) = 1 => last.out = Ok(C15_Alone[CHOOSE i \in C15_Successes : TRUE].val)
        /\ Cardinality(C15_Successes) = 0 =>
              /\ ValueKind(last.out)
              /\ Len(last.out.exc.exceptions) = Len(last.type_.args)
              /\ \A j \in DOMAIN last.out.exc.exceptions :
                    last.out.exc.exceptions[j].trace[1].annotation.annotation_type = "union"
              /\ {last.out.exc.exceptions[j].trace[1].annotation.value : j \in DOMAIN last.out.exc.exceptions}
                    = SeqToSet(last.type_.args)
        /\ Cardinality(C15_Successes) >= 2 =>
              /\ TypeKind(last.out)
              /\ last.out.exc.info = {ToString(Cardinality(C15_Successes))}

\* every member that fails alone fails with an exception of typedload
C15_Typed == \A i \in DOMAIN last.type_.args : C15_Alone[i].ok \/ IsTypedload(C15_Alone[i].exc)

\* the statement of C15 for the loads in which no member's handler lets
\* another exception than typedload's escape
C15_DebugConflictTyped == (C15_Case /\ C15_Typed) => C15_DebugConflict

\* None into Union[str, Tuple[int, int]]: the tuple member raises a bare
\* TypeError, which ends the loop over the members
C15_Escaped ==
    /\ C15_Case
    /\ ~C15_Typed
    /\ ~last.out.ok
    /\ ~IsTypedload(last.out.exc)

\* True is cast by int, by float and by str: a conflict of three
C15_Witness ==
    /\ C15_Case
    /\ last.value = BoolV(TRUE)
    /\ last.type_ = UnionOf(<<T_int, T_float, T_str>>)
    /\ TypeKind(last.out)
    /\ last.out.exc.info = {"3"}

\* the fields of record class n that are read from another key than their name
MangledFields(n) == {f \in SeqToSet(ClassFields(n)) : f.ext # ""}

\* the mangled fields of n whose own name is a key of m and the external
\* name of no field
C16_Shadowed(m, n) == {f \in MangledFields(n) : StrV(f.name) \in DictKeys(m.pv) /\ StrV(f.name) \notin DeclaredKeys(n)}

\* mapping m without its keys in names
C16_Without(m, names) == DictV(SelectSeq(m.pv, LAMBDA it : it[1] \notin {StrV(x) : x \in names}))

\* a mapping is loaded into a dataclass with name-mangled fields
C16_Case ==
    /\ last.op = "load"
    /\ last.type_ \in {T_Mangle, T_Swap}
    /\ last.value.k = "dict"

\* C16: a key that is the external name of a field is delivered to that
\* field, also when the names of two fields are swapped; a key that is the
\* internal name of a mangled field and the external name of none is not
\* delivered: with failonextra off the load goes as if the key were not
\* there, with failonextra on it raises a value-kind error.
C16_Mangling ==
    C16_Case =>
        /\ \A f \in MangledFields(last.type_.n) :
              (last.out.ok /\ StrV(f.ext) \in DictKeys(last.value.pv)) =>
                  Ok(last.out.val.pv[f.name])
                      = load(Loader(last.kwargs), DictValue(last.value.pv, StrV(f.ext)), f.type, NoAnnotation, MaxDepth).out
        /\ C16_Shadowed(last.value, last.type_.n) # {} =>
              IF last.kwargs.failonextra THEN ValueKind(last.out)
              ELSE LET Same(o) == /\ o.ok = last.out.ok
                                  /\ o.val = last.out.val
                                  /\ o.exc.cls = last.out.exc.cls
                                  /\ o.exc.info = last.out.exc.info
                   IN Same(load(Loader(last.kwargs),
                                C16_Without(last.value, {f.name : f \in C16_Shadowed(last.value, last.type_.n)}),
                                last.type_, NoAnnotation, MaxDepth).out)

\* key e goes to field p although key p is there too
C16_Witness ==
    /\ C16_Case
    /\ last.type_ = T_Mangle
    /\ {StrV("e"), StrV("p"), StrV("q")} \subseteq DictKeys(last.value.pv)
    /\ DictValue(last.value.pv, StrV("p")) = Marker
    /\ ~last.kwargs.failonextra
    /\ last.out.ok
    /\ last.out.val.pv["p"] = DictValue(last.value.pv, StrV("e"))

\* an argparse.Namespace is loaded into a record or Dict type
C17_Case ==
    /\ last.op = "load"
    /\ last.value.k = "namespace"
    /\ last.type_ \in NamespaceTypes

\* the outcome is the one of loading the dict of the object's attributes
C17_AsDict ==
    LET Same(o) == /\ o.ok = last.out.ok
                   /\ o.val = last.out.val
                   /\ o.exc.cls = last.out.exc.cls
                   /\ o.exc.info = last.out.exc.info
    IN Same(load(Loader(last.kwargs), DictV(last.value.pv), last.type_, NoAnnotation, MaxDepth).out)

\* C17: with dictequivalence on, an argparse.Namespace loaded into a
\* NamedTuple, a dataclass (with or without mangled field names), a TypedDict
\* or a Dict gives the outcome of the dict of its attributes; with
\* dictequivalence off the load raises an attribute-kind error.
C17_DictEquivalence ==
    C17_Case =>
        IF last.kwargs.dictequivalence THEN C17_AsDict ELSE AttributeKind(last.out)

\* the statement of C17 for every type but a dataclass with mangled names
C17_EquivalenceUnmangled ==
    (C17_Case /\ (last.type_.k = "dataclass" => MangledFields(last.type_.n) = {})) =>
        IF last.kwargs.dictequivalence THEN C17_AsDict ELSE AttributeKind(last.out)

\* a Namespace with every attribute of Point becomes a Point
C17_Witness ==
    /\ C17_Case
    /\ last.type_ = T_Point
    /\ last.kwargs.dictequivalence
    /\ last.out.ok
    /\ last.out.val.k = "obj"

\* the transform of the first handler of L whose condition accepts T ("" when
\* index(T) raises)
C11_First(L, T) == LET ix == index(L, T) IN IF ix.i = 0 THEN "" ELSE L.handlers[ix.i].f

\* C11: on a loader whose handlers and options stay as they were at its
\* first load, every entry of the dispatch cache is the transform of the
\* lowest-index handler whose predicate accepts the type, and the handler
\* that Loader.load(v, T) invokes, scanned or cached, is that transform.
C11_DispatchCache ==
    /\ \A T \in DOMAIN loader.indexcache : loader.indexcache[T] = C11_First(loader, T)
    /\ last.op = "Loader.load" =>
          /\ \A T \in DOMAIN last.before.indexcache : last.before.indexcache[T] = C11_First(last.before, T)
          /\ last.log # <<>> => (last.log[1].f = C11_First(last.before, last.type_) /\ last.log[1].t = last.type_)
          /\ C11_First(last.before, last.type_) # "" => last.log # <<>>

\* int is served from the cache by the handler the program put in front of
\* the default one
C11_Witness ==
    /\ last.op = "Loader.load"
    /\ last.type_ = T_int
    /\ T_int \in DOMAIN last.before.indexcache
    /\ last.before.handlers[1].cond = "eq_int"
    /\ last.log[1].f = "_fortytwo"
    /\ last.out = Ok(IntV(42))

\* the class of the exception that a predicate of L raises when the handler
\* of T is looked up ("" when T is cached or no predicate raises)
C18_Raised(L, T) ==
    IF T \in DOMAIN L.indexcache THEN ""
    ELSE LET ix == index([L EXCEPT !.raiseconditionerrors = TRUE], T)
         IN IF ix.i = 0 /\ ix.exc.desc = "condition" THEN ix.exc.cls ELSE ""

RECURSIVE C18_FirstRaised(_, _, _)
\* the first exception a predicate raises among the look-ups for types[i..]
C18_FirstRaised(L, types, i) ==
    IF i > Len(types) THEN ""
    ELSE IF C18_Raised(L, types[i]) # "" THEN C18_Raised(L, types[i])
    ELSE C18_FirstRaised(L, types, i + 1)

\* the types whose handlers a load into T looks up: T, then its parameters
C18_LookedUp(T) == <<T>> \o T.args

\* L without the handlers whose predicate raises
C18_WithoutFailing(L) ==
    [L EXCEPT !.handlers = SelectSeq(@, LAMBDA h : h.cond \notin {"raises_TypeError", "raises_ValueError", "no_args"})]

\* C18 (Loader): with raiseconditionerrors on, the exception that a handler
\* predicate raises during a load reaches the caller of load; with
\* raiseconditionerrors off the load gives what the handler list without the
\* failing entry gives.
C18_PredicateFailure ==
    last.op = "Loader.load" =>
        IF last.before.raiseconditionerrors
        THEN C18_FirstRaised(last.before, C18_LookedUp(last.type_), 1) # "" =>
                 /\ ~last.out.ok
                 /\ last.out.exc.cls = C18_FirstRaised(last.before, C18_LookedUp(last.type_), 1)
        ELSE LET Same(o) == /\ o.ok = last.out.ok
                            /\ o.val = last.out.val
                            /\ o.exc.cls = last.out.exc.cls
             IN Same(load(C18_WithoutFailing(last.before), last.value, last.type_, NoAnnotation, MaxDepth).out)

\* the statement of C18 for a predicate that raises neither a ValueError nor
\* during the look-up for the parameter of a declared type
C18_PredicateFailureAtRoot ==
    last.op = "Loader.load" =>
        IF last.before.raiseconditionerrors
        THEN C18_Raised(last.before, last.type_) \notin {"", "ValueError"} =>
                 /\ ~last.out.ok
                 /\ last.out.exc.cls = C18_Raised(last.before, last.type_)
                 /\ last.log = <<>>
        ELSE LET Same(o) == /\ o.ok = last.out.ok
                            /\ o.val = last.out.val
                            /\ o.exc.cls = last.out.exc.cls
             IN Same(load(C18_WithoutFailing(last.before), last.value, last.type_, NoAnnotation, MaxDepth).out)

\* the class of the exception that a predicate of dumper D raises when the
\* handler of value is looked up
C18_DumpRaised(D, value) ==
    IF TypeOf(value) \in DOMAIN D.handlerscache THEN ""
    ELSE LET ix == dump_index([D EXCEPT !.raiseconditionerrors = TRUE], value)
         IN IF ix.i = 0 /\ ix.exc.desc = "condition" THEN ix.exc.cls ELSE ""

\* C18 (Dumper): the same for Dumper.dump, at the value dumped itself
C18_DumpPredicateFailure ==
    last.op = "Dumper.dump" =>
        IF last.before.raiseconditionerrors
        THEN C18_DumpRaised(last.before, last.value) # "" =>
                 /\ ~last.out.ok
                 /\ last.out.exc.cls = C18_DumpRaised(last.before, last.value)
        ELSE last.out = dump([last.before EXCEPT !.handlers = SelectSeq(@, LAMBDA h : h # "_broken")],
                             last.value, T_Any, MaxDepth).out

\* the broken predicate of test_broken_handler is skipped and 1 loads as int
C18_Witness ==
    /\ last.op = "Loader.load"
    /\ ~last.before.raiseconditionerrors
    /\ last.before.handlers[1].cond = "raises_TypeError"
    /\ last.type_ = T_int
    /\ last.out = Ok(IntV(1))

\* the calls of _mangle_names that a log holds
C19_Mangles(log) == {i \in DOMAIN log : log[i].f = "_mangle_names"}

C20_LoadedTypes(L) == DOMAIN L.indexcache

\* C20: on a loader with the forward-reference table enabled, every named
\* type that the loader has loaded, passed to load or reached inside another
\* type, is bound under its name in the table (to itself, or to the type that
\* took the name before it).
C20_LoadedTypesBound ==
    ~loader.frefs.none =>
        \A T \in C20_LoadedTypes(loader) : HasName(T) => TypeName(T) \in DOMAIN loader.frefs.d

\* a ForwardRef naming a type the loader has loaded resolves: a chain of two
\* Nodes loads on a loader that has loaded Node
C20_ForwardRefResolves ==
    (/\ last.op = "Loader.load"
     /\ ~last.before.frefs.none
     /\ T_Node \in C20_LoadedTypes(last.before)
     /\ last.type_ = T_Node
     /\ last.value = PlainChain(2)) => last.out = Ok(Chain(2))

RECURSIVE C21_PerItem(_, _, _, _, _, _)
\* {l.load(k, K): l.load(v, V) for k, v in items}: the outcome of the first
\* load that raises, or the mapping of the loaded keys to the loaded values
C21_PerItem(L, K, V, items, i, acc) ==
    IF i > Len(items) THEN Ok(DictV(acc))
    ELSE LET Value(rk, rv) ==
                 IF ~rv.out.ok THEN rv.out
                 ELSE C21_PerItem(rv.L, K, V, items, i + 1, DictSet(acc, rk.out.val, rv.out.val))
             Key(rk) ==
                 IF ~rk.out.ok THEN rk.out
                 ELSE Value(rk, load(rk.L, items[i][2], V, NoAnnotation, MaxDepth))
         IN Key(load(L, items[i][1], K, NoAnnotation, MaxDepth))

\* a mapping is loaded into a Dict type by a long-lived loader
C21_Case ==
    /\ last.op = "Loader.load"
    /\ last.type_ \in DictTypes
    /\ last.value.k = "dict"

\* C21: load(m, Dict[K, V]) gives the mapping of load(k, K) to load(m[k], V),
\* or fails as the first of these loads fails, whether K and V are basic or
\* not and whether their handlers are cached or not.
C21_DictPerItem ==
    C21_Case =>
        LET Same(o) == /\ o.ok = last.out.ok
                       /\ o.ok => PyEq(o.val, last.out.val)
                       /\ ~o.ok => o.exc.cls = last.out.exc.cls
        IN Same(C21_PerItem(last.before, last.type_.args[1], last.type_.args[2], last.value.pv, 1, <<>>))

\* the statement of C21 when the handler of the value type is in the cache
\* at the start of the call, or the key type is a basic one, and no bool
\* stands for an int
C21_DictPerItemWarm ==
    (/\ C21_Case
     /\ last.type_.args[2] \in DOMAIN last.before.indexcache \/ last.type_.args[1] \in last.before.basictypes
     /\ \A i \in DOMAIN last.value.pv :
           /\ last.type_.args[1] = T_int => last.value.pv[i][1].k # "bool"
           /\ last.type_.args[2] = T_int => last.value.pv[i][2].k # "bool") =>
        LET Same(o) == /\ o.ok = last.out.ok
                       /\ o.ok => PyEq(o.val, last.out.val)
                       /\ ~o.ok => o.exc.cls = last.out.exc.cls
        IN Same(C21_PerItem(last.before, last.type_.args[1], last.type_.args[2], last.value.pv, 1, <<>>))

\* a mapping with a non-basic key type and a non-basic value type is loaded
\* on a loader whose cache holds neither handler
C21_Witness ==
    /\ C21_Case
    /\ last.type_ = DictOf(T_Result, T_Point)
    /\ last.before.indexcache = EmptyDict
    /\ last.out.ok
    /\ last.out.val.pv # <<>>

\* a loader built with the options and handlers of L that has served no call
C22_Fresh(L) ==
    [L EXCEPT !.frefs = [none |-> L.frefs.none, d |-> EmptyDict],
              !.indexcache = EmptyDict,
              !.objfieldscache = EmptyDict,
              !.discriminatorcache = EmptyDict,
              !.log = <<>>]

\* what the latest call gives on a loader that has served no call
C22_Cold == load(C22_Fresh(last.before), last.value, last.type_, NoAnnotation, MaxDepth).out

\* C22: a load on a loader that served other loads before ends as the same
\* load on a fresh loader with the same handlers and options: with the same
\* value, or with an error of the same kind.
C22_CacheTransparent ==
    last.op = "Loader.load" => SameOutcome(last.out, C22_Cold)

\* the statement of C22 for every type but a mapping type whose key type is
\* not a basic one
C22_CacheTransparentElsewhere ==
    (/\ last.op = "Loader.load"
     /\ ~(last.type_.k = "dict" /\ last.type_.args[1] \notin last.before.basictypes)) =>
        SameOutcome(last.out, C22_Cold)

\* a mapping is loaded on a loader whose cache holds handlers of earlier loads
C22_Witness ==
    /\ C21_Case
    /\ last.before.indexcache # EmptyDict
    /\ last.out.ok
    /\ last.out.val.pv # <<>>

RECURSIVE C23_FirstFailing(_, _, _, _, _)
\* the first load of a key or of a value of the mapping that raises: its
\* side, the key or value it was given and its outcome; side "" when every
\* key and value loads
C23_FirstFailing(L, K, V, items, i) ==
    IF i > Len(items) THEN [side |-> "", item |-> None, out |-> Ok(None)]
    ELSE LET Value(rv) ==
                 IF ~rv.out.ok THEN [side |-> "value", item |-> items[i][2], out |-> rv.out]
                 ELSE C23_FirstFailing(rv.L, K, V, items, i + 1)
             Key(rk) ==
                 IF ~rk.out.ok THEN [side |-> "key", item |-> items[i][1], out |-> rk.out]
                 ELSE Value(load(rk.L, items[i][2], V, NoAnnotation, MaxDepth))
         IN Key(load(L, items[i][1], K, NoAnnotation, MaxDepth))

\* a mapping is loaded by typedload.load into a Dict type whose key and
\* value types have handlers
C23_Case ==
    /\ last.op = "load"
    /\ <<last.value, last.type_>> \in MappingCases

\* the nested failure of the latest call
C23_Nested ==
    C23_FirstFailing(last.before, last.type_.args[1], last.type_.args[2], last.value.pv, 1)

\* the raised error is the nested one, re-raised: same class, value and
\* type_, and the trace is the root item, then the nested trace with its
\* first item annotated KEY or VALUE
C23_Reraised(n) ==
    /\ ~last.out.ok
    /\ last.out.exc.cls = n.out.exc.cls
    /\ last.out.exc.value = n.out.exc.value
    /\ last.out.exc.type_ = n.out.exc.type_
    /\ last.out.exc.trace =
          <<TraceItem(last.value, last.type_, NoAnnotation),
            [n.out.exc.trace[1] EXCEPT !.annotation = Annotation(n.side, n.item)]>>
          \o Tail(n.out.exc.trace)

\* C23: when a key or a value of a mapping cannot be loaded, the nested
\* error is re-raised, whatever its kind: below the root item the trace has
\* an item annotated KEY (or VALUE) and then the trace of the nested
\* failure, and value and type_ are those of the innermost failing load.
C23_NestedReraised ==
    (C23_Case /\ C23_Nested.side # "") => C23_Reraised(C23_Nested)

\* the statement of C23 for the nested failures of value and type kind
C23_NestedReraisedValueType ==
    (/\ C23_Case
     /\ C23_Nested.side # ""
     /\ C23_Nested.out.exc.cls \in {"TypedloadValueError", "TypedloadTypeError"}) =>
        C23_Reraised(C23_Nested)

\* what the code does with a nested failure of attribute kind: a new error
\* is raised in its place, about the whole mapping and with the root item
\* as its whole trace
C23_AttributeReplaced ==
    (/\ C23_Case
     /\ C23_Nested.side # ""
     /\ C23_Nested.out.exc.cls = "TypedloadAttributeError") =>
        /\ ~last.out.ok
        /\ last.out.exc.cls = "TypedloadAttributeError"
        /\ last.out.exc.value = last.value
        /\ last.out.exc.type_ = last.type_
        /\ last.out.exc.trace = <<TraceItem(last.value, last.type_, NoAnnotation)>>

\* a value of the mapping fails below itself with a type-kind error
C23_Witness ==
    /\ C23_Case
    /\ C23_Nested.side = "value"
    /\ C23_Nested.out.exc.cls = "TypedloadTypeError"
    /\ Len(C23_Nested.out.exc.trace) > 1
    /\ C23_Reraised(C23_Nested)

RECURSIVE C24_PerElement(_, _, _, _, _)
\* [l.load(x, T) for x in xs]: the outcome of the first load that raises,
\* or the list of the loaded elements
C24_PerElement(L, T, xs, i, acc) ==
    IF i > Len(xs) THEN Ok(ListV(acc))
    ELSE LET Element(r) ==
                 IF ~r.out.ok THEN r.out
                 ELSE C24_PerElement(r.L, T, xs, i + 1, Append(acc, r.out.val))
         IN Element(load(L, xs[i], T, NoAnnotation, MaxDepth))

\* a list is loaded into a list, set, frozenset or variadic tuple of a basic
\* type or of a union of basic types
C24_Case ==
    /\ last.op = "load"
    /\ last.value.k = "list"
    /\ last.type_ \in UNION {{ListOf(t), SetOf(t), FrozenSetOf(t), VarTupleOf(t)} : t \in ElementTypes}

\* the container load ends as the element-by-element loads do
C24_AsPerElement(o) ==
    /\ last.out.ok = o.ok
    /\ o.ok => last.out.val = Collect(last.type_.k, o.val.pv)
    /\ ~o.ok => last.out.exc.cls = o.exc.cls

\* C24: loading a container of a basic type (or of a union of basic types)
\* succeeds exactly when every element loads, gives exactly the loaded
\* elements, and fails with the kind of the first failing element, with
\* basiccast on and off and with a bool in a list of int.
C24_FastPathEquivalent ==
    C24_Case => C24_AsPerElement(C24_PerElement(last.before, last.type_.args[1], last.value.pv, 1, <<>>))

\* the statement of C24 for the containers that hold no bool standing for
\* an int
C24_FastPathEquivalentNoBool ==
    (/\ C24_Case
     /\ last.type_.args[1] = T_int => \A i \in DOMAIN last.value.pv : last.value.pv[i].k # "bool") =>
        C24_AsPerElement(C24_PerElement(last.before, last.type_.args[1], last.value.pv, 1, <<>>))

\* a list with a bool is loaded into a list of int with basiccast off
C24_Witness ==
    /\ C24_Case
    /\ last.type_ = ListOf(T_int)
    /\ ~last.kwargs.basiccast
    /\ last.value = ListV(<<IntV(1), BoolV(TRUE)>>)
    /\ last.out.ok

\* a mapping is loaded into a union of records that share the Literal
\* field kind
C25_Case ==
    /\ last.op = "load"
    /\ last.type_ \in TaggedUnions \cup OverlapUnions
    /\ last.value.k = "dict"

\* the members whose literal set for kind holds the kind of the mapping
C25_Owners ==
    IF StrV("kind") \notin DictKeys(last.value.pv) THEN {}
    ELSE {t \in SeqToSet(last.type_.args) :
             \E lit \in discriminatorliterals(t)["kind"] : PyEq(lit, DictValue(last.value.pv, StrV("kind")))}

\* the members in the order their handlers were invoked
C25_Attempts ==
    LET members == SelectSeq(last.log, LAMBDA e : e.t \in SeqToSet(last.type_.args)
                                                 /\ e.f \notin {"__new__", "_mangle_names"})
    IN [i \in DOMAIN members |-> members[i].t]

\* the members are attempted in the order given
C25_AttemptedAs(order) ==
    /\ C25_Attempts # <<>>
    /\ Len(C25_Attempts) <= Len(order)
    /\ \A i \in DOMAIN C25_Attempts : C25_Attempts[i] = order[i]

\* C25: a member is moved to the front only when the mapping's kind is in
\* the literal set of exactly one member, and it is that member; when the
\* kind is in the set of no member or of more than one, the members are
\* attempted in their sorted order.
C25_PromotionUnique ==
    C25_Case =>
        C25_AttemptedAs(IF Cardinality(C25_Owners) = 1
                        THEN MoveToFront(SortedArgs(last.before, last.type_.args), CHOOSE t \in C25_Owners : TRUE)
                        ELSE SortedArgs(last.before, last.type_.args))

\* the statement of C25 when the kind is in the literal set of one member
\* at most
C25_PromotionUniqueDisjoint ==
    (C25_Case /\ Cardinality(C25_Owners) <= 1) =>
        C25_AttemptedAs(IF Cardinality(C25_Owners) = 1
                        THEN MoveToFront(SortedArgs(last.before, last.type_.args), CHOOSE t \in C25_Owners : TRUE)
                        ELSE SortedArgs(last.before, last.type_.args))

\* what the code does when the kind is in the literal set of several
\* members: the last of them in declaration order is moved to the front
C25_LastOwnerPromoted ==
    (C25_Case /\ Cardinality(C25_Owners) > 1) =>
        LET args == last.type_.args
            i == CHOOSE i \in DOMAIN args : args[i] \in C25_Owners /\ \A j \in DOMAIN args : args[j] \in C25_Owners => j <= i
        IN C25_AttemptedAs(MoveToFront(SortedArgs(last.before, args), args[i]))

\* the kind of the mapping is in the literal set of the second member only,
\* and that member is attempted first and loads
C25_Witness ==
    /\ C25_Case
    /\ last.type_ = UnionOf(<<T_A, T_C>>)
    /\ C25_Owners = {T_C}
    /\ C25_Attempts[1] = T_C
    /\ last.out.ok

\* the members that are no basic type in declaration order, then the basic
\* ones in declaration order
C26_Order(L, args) ==
    LET nonbasic == {i \in DOMAIN args : args[i] \notin L.basictypes}
        Before(i, j) == \/ i \in nonbasic /\ j \notin nonbasic
                        \/ (i \in nonbasic <=> j \in nonbasic) /\ i < j
    IN [p \in DOMAIN args |->
           args[CHOOSE i \in DOMAIN args : Cardinality({j \in DOMAIN args : Before(j, i)}) = p - 1]]

RECURSIVE C26_Try(_, _, _, _, _, _)
\* the members loaded one after the other in the order given, up to the
\* first that loads (every one of them when all is set): the outcome of the
\* first that loads, and the handler invocations made
C26_Try(L, value, order, i, all, first) ==
    IF i > Len(order) THEN [found |-> first.ok, out |-> first.out, log |-> L.log]
    ELSE LET Member(r) ==
                 IF r.out.ok /\ ~all THEN [found |-> TRUE, out |-> r.out, log |-> r.L.log]
                 ELSE C26_Try(r.L, value, order, i + 1, all,
                              IF r.out.ok /\ ~first.ok THEN [ok |-> TRUE, out |-> r.out] ELSE first)
         IN Member(load(L, value, order[i], NoAnnotation, MaxDepth))

\* a value that is no exact basic member is loaded into a union whose
\* members share no Literal field
C26_Case ==
    /\ last.op = "load"
    /\ last.type_ \in BasicUnions \cup OrderUnions
    /\ ~(TypeOf(last.value) \in last.before.basictypes /\ TypeOf(last.value) \in SeqToSet(last.type_.args))

\* the attempts the claim gives for the latest call
C26_Claimed ==
    C26_Try([last.before EXCEPT !.log = <<[f |-> "_unionload", t |-> last.type_, keys |-> {}]>>],
            last.value, C26_Order(last.before, last.type_.args), 1, last.before.uniondebugconflict,
            [ok |-> FALSE, out |-> Ok(None)])

\* the handlers were invoked as the claim says, and in default mode the
\* outcome is that of the first member that loads
C26_AsClaimed(e) ==
    /\ last.log = e.log
    /\ ~last.before.uniondebugconflict =>
          /\ e.found => last.out = e.out
          /\ ~e.found => ~last.out.ok /\ last.out.exc.cls = "TypedloadValueError"

\* C26: when the union load does not return at the shortcut and no member
\* is promoted, the members are attempted non-basic first, then basic, each
\* group in declaration order; in default mode the result is the load of
\* the first member that succeeds.
C26_MemberOrder ==
    C26_Case => C26_AsClaimed(C26_Claimed)

\* the statement of C26 for the unions without a fixed tuple member
C26_MemberOrderNoTuple ==
    (C26_Case /\ \A i \in DOMAIN last.type_.args : last.type_.args[i] # TupleOf(<<T_int, T_int>>)) =>
        C26_AsClaimed(C26_Claimed)

\* a string is loaded into Union[float, List[int], int]: the list member,
\* declared second, is attempted first and loads
C26_Witness ==
    /\ C26_Case
    /\ last.type_ = UnionOf(<<T_float, ListOf(T_int), T_int>>)
    /\ last.value = StrV("3")
    /\ ~last.before.uniondebugconflict
    /\ last.log[2].t = ListOf(T_int)
    /\ last.out = Ok(ListV(<<IntV(3)>>))

\* a value is dumped by a long-lived dumper none of whose predicates raises
\* for it
C27_Case ==
    /\ last.op = "Dumper.dump"
    /\ dump_index([last.before EXCEPT !.raiseconditionerrors = TRUE], last.value).exc.desc # "condition"

\* the dump of the value by the first handler whose predicate holds for it
C27_ByFirstMatch ==
    LET ix == dump_index(last.before, last.value)
    IN IF ix.i = 0
       THEN /\ ~last.out.ok
            /\ last.out.exc.cls = "TypedloadValueError"
            /\ last.out.exc.desc = "Unable to dump"
       ELSE last.out = DumpCall(last.before.handlers[ix.i], last.before, last.value, T_Any, MaxDepth).out

\* C27: after any sequence of dumps, Dumper.dump(v) applies the transform of
\* the first handler whose predicate is true for v itself, and raises the
\* 'unable to dump' error exactly when no predicate is true for v, also when
\* a value of the same runtime type was dumped before.
C27_FirstMatch ==
    C27_Case => C27_ByFirstMatch

\* the statement of C27 for the values whose runtime type the dumper has not
\* dumped before
C27_FirstMatchNewType ==
    (C27_Case /\ TypeOf(last.value) \notin DOMAIN last.before.handlerscache) => C27_ByFirstMatch

\* what the code does for a value whose runtime type was dumped before: the
\* transform cached for the type is applied, no predicate is evaluated
C27_CachedByType ==
    (last.op = "Dumper.dump" /\ TypeOf(last.value) \in DOMAIN last.before.handlerscache) =>
        last.out = DumpCall(last.before.handlerscache[TypeOf(last.value)], last.before, last.value, T_Any, MaxDepth).out

\* a string is dumped after another string, by a dumper with a handler whose
\* predicate looks at the value
C27_Witness ==
    /\ C27_Case
    /\ "_blank" \in SeqToSet(last.before.handlers)
    /\ last.value = StrV("x")
    /\ T_str \in DOMAIN last.before.handlerscache

\* typedload.load returned a value with uniondebugconflict on
C28_Case ==
    /\ last.op = "load"
    /\ last.kwargs.uniondebugconflict
    /\ last.out.ok

\* what the same call gives with uniondebugconflict off
C28_Off ==
    load(Loader([last.kwargs EXCEPT !.uniondebugconflict = FALSE]), last.value, last.type_, NoAnnotation, MaxDepth).out

\* C28: uniondebugconflict never changes a result: a load that returns r
\* with the option on returns r with the option off, also when a union is
\* nested in a member of another union.
C28_DebugSameResult ==
    C28_Case => C28_Off = last.out

\* the statement of C28 for the types with no union inside a member of
\* another union
C28_DebugSameResultFlat ==
    (C28_Case /\ last.type_ \notin NestedUnions) => C28_Off = last.out

\* a union with a union inside a member returns a value with the option on
C28_Witness ==
    /\ C28_Case
    /\ last.type_ = UnionOf(<<ListOf(UnionOf(<<T_int, T_str>>)), ListOf(T_bool)>>)
    /\ last.value = ListV(<<IntV(1)>>)
    /\ last.out = Ok(ListV(<<IntV(1)>>))

RECURSIVE C29_NestingDepth(_)
\* the nesting depth of a value: 0 for a scalar, one more than its deepest
\* item for a list
C29_NestingDepth(v) ==
    IF v.k # "list" THEN 0
    ELSE LET depths == {C29_NestingDepth(v.pv[i]) : i \in DOMAIN v.pv}
         IN 1 + (IF depths = {} THEN 0 ELSE CHOOSE m \in depths : \A n \in depths : n <= m)

RECURSIVE C29_HasStr(_)
\* whether the value is a non-empty string or holds one
C29_HasStr(v) ==
    \/ v.k = "str" /\ v.pv # ""
    \/ v.k = "list" /\ \E i \in DOMAIN v.pv : C29_HasStr(v.pv[i])

\* the interpreter's recursion limit was reached during the latest call
C29_LimitReached == \E i \in DOMAIN last.log : last.log[i].f = "RecursionError"

\* a value is loaded into a schema whose cycle passes through a forward
\* reference the table resolves; every level of the value takes three
\* nested handler invocations (the union, the list, the forward reference),
\* and the limit leaves room for them
C29_Case ==
    /\ last.op = "load"
    /\ last.type_ = T_X
    /\ 3 * (C29_NestingDepth(last.value) + 1) <= MaxDepth

\* C29: loading a finite value into a recursive schema terminates with a
\* recursion depth bounded by the nesting depth of the value plus the depth
\* of the schema, a string loaded into X = Union[int, List['X']] included:
\* the recursion limit is not reached.
C29_DepthBounded ==
    C29_Case => ~C29_LimitReached

\* the statement of C29 for the values that hold no string
C29_DepthBoundedNoStr ==
    (C29_Case /\ ~C29_HasStr(last.value)) => ~C29_LimitReached

\* a list nested three deep loads into X
C29_Witness ==
    /\ C29_Case
    /\ last.value = ListV(<<ListV(<<ListV(<<>>)>>)>>)
    /\ last.out = Ok(last.value)
    /\ ~C29_LimitReached

\* every binding of the table a is a binding of the table b
C30_Kept(a, b) ==
    /\ a.none = b.none
    /\ \A n \in DOMAIN a.d : n \in DOMAIN b.d /\ b.d[n] = a.d[n]

\* C30: Loader.load removes no entry of the forward-reference table and
\* rebinds no bound name: the table after a load holds every binding of the
\* table before it, so the bindings the loader was built with, and each
\* binding made since, stay as they are in every later load.
C30_BindingsStable ==
    /\ last.op = "Loader" => last.after.frefs.d = last.kwargs.frefs
    /\ last.op = "Loader.load" => C30_Kept(last.before.frefs, last.after.frefs)

\* a chain of a Node and a Point is loaded into Node, for the first time,
\* by a loader built with the name Node bound to Point, after a load that
\* bound the name List
C30_Witness ==
    /\ last.op = "Loader.load"
    /\ last.type_ = T_Node
    /\ T_Node \notin DOMAIN last.before.indexcache
    /\ "List" \in DOMAIN last.before.frefs.d
    /\ "Node" \in DOMAIN last.before.frefs.d
    /\ last.before.frefs.d["Node"] = T_Point
    /\ last.out.ok
    /\ last.out.val.pv["next"].k = "obj"
    /\ last.out.val.pv["next"].cls = T_Point

====
